---- MODULE Spec2Model ----
(***************************************************************************)
(* Charging Control (Home Assistant custom component): the rolling power   *)
(* windows, the charging decision and the reconciliation of the charger's  *)
(* switch and current selector, modelled from                              *)
(* custom_components/charging_control/{sensor,switch,select}.py.           *)
(*                                                                         *)
(* Representation.  A Python str is a sequence of one-character strings,   *)
(* so that str(), int() and float() are computed and not assumed.  Numbers *)
(* are integers; an average is kept as the exact fraction sum / len, and   *)
(* the float rounding of the source is not modelled.  None is a separate   *)
(* record field or a missing key.                                          *)
(***************************************************************************)
EXTENDS Integers, Sequences, FiniteSets, TLC

VARIABLES
    now,                 \* dt_util.now(), in seconds
    config,              \* config_entry.data: key -> entity id, "" when not configured
    entity_id,           \* the entity ids the host gave the enable switch and the cap select
    states,              \* hass.states: entity id -> state string; no key, no entity
    select_options,      \* attributes["options"] of the charger's current select entity
    is_on,               \* ChargingEnabledSwitch._attr_is_on
    current_option,      \* MaxChargingCurrentSelect._attr_current_option
    native_value,        \* sensor -> the value last written by a state update
    pending_update,      \* sensor -> a state update is scheduled
    last_update,         \* sensor -> _last_update, NoTime for None
    next_fire,           \* sensor -> when its async_track_time_interval fires next
    notified,            \* history: sensor -> the times a state change made it recompute
    env_changes,         \* history: the number of changes made by the user and the devices
    chain,               \* history: the reconciliation started last and the one before
    tasks,               \* the _update_charger_control tasks: position, locals, commands
    inflight,            \* commands accepted by the service registry, not yet handled
    power_window_30s,    \* sensor -> PowerWindow(30).measurements
    power_window_15min,  \* sensor -> PowerWindow(15 * 60).measurements
    pw_inserted,         \* history: window -> every sample added since the last clear()
    pw_adds,             \* history: the number of add_measurement calls made
    pw_last              \* history: the last PowerWindow call and what it returned

vars == <<now, config, entity_id, states, select_options, is_on, current_option,
          native_value, pending_update, last_update, next_fire, notified, env_changes,
          chain, tasks, inflight,
          power_window_30s, power_window_15min, pw_inserted, pw_adds, pw_last>>

schedVars == <<native_value, pending_update, last_update, next_fire, notified>>

windowVars == <<power_window_30s, power_window_15min>>

taskVars == <<tasks, inflight, chain>>

hassVars == <<config, entity_id, states, select_options, is_on, current_option>>

pwHistory == <<pw_inserted, pw_adds, pw_last>>

(***************************************************************************)
(* Bounds of the model.                                                    *)
(***************************************************************************)
MaxTimeUnits == 5
MaxSamples == 3
MaxTasks == 2
MaxEnvChanges == 1
MaxTime == 10
MaxTarget == 21

(***************************************************************************)
(* Python strings.                                                         *)
(***************************************************************************)
Digits == <<"0", "1", "2", "3", "4", "5", "6", "7", "8", "9">>

IsDigit(c) == \E i \in 1..10 : Digits[i] = c

DigitVal(c) == (CHOOSE i \in 1..10 : Digits[i] = c) - 1

RECURSIVE NatStr(_)
NatStr(n) == IF n < 10 THEN <<Digits[n + 1]>>
             ELSE NatStr(n \div 10) \o <<Digits[(n % 10) + 1]>>

\* str(n) of a Python int
Str(n) == IF n < 0 THEN <<"-">> \o NatStr(-n) ELSE NatStr(n)

RECURSIVE StripLeft(_)
StripLeft(s) == IF s # <<>> /\ Head(s) = " " THEN StripLeft(Tail(s)) ELSE s

RECURSIVE StripRight(_)
StripRight(s) == IF s # <<>> /\ s[Len(s)] = " "
                 THEN StripRight(SubSeq(s, 1, Len(s) - 1)) ELSE s

\* (The prefix is bound, so that it is computed once.)
RECURSIVE DigitsValue(_)
DigitsValue(s) ==
    IF s = <<>> THEN 0
    ELSE CHOOSE v \in {10 * DigitsValue(front) + DigitVal(s[Len(s)]) :
                          front \in {SubSeq(s, 1, Len(s) - 1)}} : TRUE

\* int(s) of a Python str: surrounding blanks and one sign are accepted, anything
\* else than decimal digits raises ValueError (ok = FALSE).
ParseInt(s) ==
    LET Parsed(t) ==
            LET neg  == t # <<>> /\ Head(t) = "-"
                body == IF t # <<>> /\ Head(t) \in {"+", "-"} THEN Tail(t) ELSE t
            IN  IF body = <<>> \/ \E i \in 1..Len(body) : ~IsDigit(body[i])
                THEN [ok |-> FALSE, val |-> 0]
                ELSE [ok |-> TRUE,
                      val |-> IF neg THEN 0 - DigitsValue(body) ELSE DigitsValue(body)]
    IN  CHOOSE r \in {Parsed(t) : t \in {StripRight(StripLeft(s))}} : TRUE

\* float(s) of a Python str, for the integer-valued literals of the model: as int(),
\* and a decimal point followed by zeros only is accepted too ("16.0", "16.").
ParseFloat(s) ==
    LET Parsed(t) ==
            LET dots  == {i \in 1..Len(t) : t[i] = "."}
                whole == IF dots = {} THEN t
                         ELSE SubSeq(t, 1, (CHOOSE i \in dots : TRUE) - 1)
                frac  == IF dots = {} THEN <<>>
                         ELSE SubSeq(t, (CHOOSE i \in dots : TRUE) + 1, Len(t))
            IN  IF Cardinality(dots) > 1 \/ \E i \in 1..Len(frac) : frac[i] # "0"
                THEN [ok |-> FALSE, val |-> 0]
                ELSE ParseInt(whole)
    IN  CHOOSE r \in {Parsed(t) : t \in {StripRight(StripLeft(s))}} : TRUE

\* The characters of the model's strings in code point order, for str < str.
Alphabet == <<" ", "+", "-", ".", "0", "1", "2", "3", "4", "5", "6", "7", "8", "9", "_",
              "a", "b", "c", "d", "e", "f", "g", "h", "i", "j", "k", "l", "m", "n", "o",
              "p", "q", "r", "s", "t", "u", "v", "w", "x", "y", "z">>

Ord(c) == CHOOSE i \in 1..Len(Alphabet) : Alphabet[i] = c

RECURSIVE StrLess(_, _)
StrLess(a, b) ==
    IF b = <<>> THEN FALSE
    ELSE IF a = <<>> THEN TRUE
    ELSE IF Head(a) # Head(b) THEN Ord(Head(a)) < Ord(Head(b))
    ELSE StrLess(Tail(a), Tail(b))

ON == <<"o", "n">>
OFF == <<"o", "f", "f">>
UNKNOWN == <<"u", "n", "k", "n", "o", "w", "n">>
UNAVAILABLE == <<"u", "n", "a", "v", "a", "i", "l", "a", "b", "l", "e">>

(***************************************************************************)
(* PowerWindow (sensor.py 39-67).  A measurement is <<power, timestamp>>.  *)
(***************************************************************************)
Sensors == {"ChargingAllowedSensor", "MaxChargingCurrentSensor"}

Windows == {"power_window_30s", "power_window_15min"}

window_seconds(w) == IF w = "power_window_30s" THEN 30 ELSE 15 * 60

\* A faulty variant of Cleanup, to compare with: it purges also the sample exactly at the cutoff.
RECURSIVE CleanupStale(_, _, _)
CleanupStale(measurements, current_time, seconds) ==
    IF measurements # <<>> /\ measurements[1][2] <= current_time - seconds
    THEN CleanupStale(Tail(measurements), current_time, seconds)
    ELSE measurements

RECURSIVE Cleanup(_, _, _)
Cleanup(measurements, current_time, seconds) ==
    IF measurements # <<>> /\ measurements[1][2] < current_time - seconds
    THEN Cleanup(Tail(measurements), current_time, seconds)
    ELSE measurements

\* A faulty variant of AddMeasurement, to compare with: it appends without purging.
AddMeasurementNoCleanup(measurements, power, timestamp, seconds) ==
    Append(measurements, <<power, timestamp>>)

AddMeasurement(measurements, power, timestamp, seconds) ==
    Cleanup(Append(measurements, <<power, timestamp>>), timestamp, seconds)

RECURSIVE SumPower(_)
SumPower(measurements) ==
    IF measurements = <<>> THEN 0
    ELSE measurements[1][1] + SumPower(Tail(measurements))

\* get_average's return value: None, or sum / len as the fraction num / den
NoAverage == [none |-> TRUE, num |-> 0, den |-> 1]

\* A faulty variant of GetAverage, to compare with: nothing is purged.
GetAverageUnpurged(measurements, current_time, seconds) ==
    IF measurements = <<>> THEN NoAverage
    ELSE [none |-> FALSE, num |-> SumPower(measurements), den |-> Len(measurements)]

GetAverage(measurements, current_time, seconds) ==
    LET kept == Cleanup(measurements, current_time, seconds)
    IN  IF kept = <<>> THEN NoAverage
        ELSE [none |-> FALSE, num |-> SumPower(kept), den |-> Len(kept)]

Measurements(s, w) ==
    IF w = "power_window_30s" THEN power_window_30s[s] ELSE power_window_15min[s]

SetMeasurements(s, w, ms) ==
    IF w = "power_window_30s"
    THEN /\ power_window_30s' = [power_window_30s EXCEPT ![s] = ms]
         /\ UNCHANGED power_window_15min
    ELSE /\ power_window_15min' = [power_window_15min EXCEPT ![s] = ms]
         /\ UNCHANGED power_window_30s

(***************************************************************************)
(* Readings (sensor.py 365-427) and the user's controls.                   *)
(***************************************************************************)
DOMAIN_NAME == "charging_control"

EntryId == "entry1"

NoEntity == ""

NoTime == 0 - 1

\* hass.states.get(id) is None
Missing(id) == id \notin DOMAIN states

\* A faulty variant of GetStateValue, to compare with: content that is not a number
\* reads as 0, whatever the default.
GetStateValueZero(id, default) ==
    IF id = NoEntity THEN default
    ELSE IF ~Missing(id) /\ states[id] \notin {UNKNOWN, UNAVAILABLE}
         THEN LET f == ParseFloat(states[id])
              IN  IF f.ok THEN f.val ELSE 0
         ELSE default

\* _get_state_value(entity_id, default)
GetStateValue(id, default) ==
    IF id = NoEntity THEN default
    ELSE IF ~Missing(id) /\ states[id] \notin {UNKNOWN, UNAVAILABLE}
         THEN LET f == ParseFloat(states[id])
              IN  IF f.ok THEN f.val ELSE default
         ELSE default

Voltage(entity) == GetStateValue(entity, 230)

\* A faulty variant of CalculateCurrentPower, to compare with: the magnitude of each
\* current is taken.
CalculateCurrentPowerMagnitude ==
    LET Magnitude(x) == IF x < 0 THEN 0 - x ELSE x
        current_l1 == Magnitude(GetStateValue(config.current_l1_entity, 0))
        current_l2 == Magnitude(GetStateValue(config.current_l2_entity, 0))
        current_l3 == Magnitude(GetStateValue(config.current_l3_entity, 0))
    IN  Voltage(config.voltage_l1_entity) * current_l1
          + Voltage(config.voltage_l2_entity) * current_l2
          + Voltage(config.voltage_l3_entity) * current_l3

CalculateCurrentPower ==
    LET current_l1 == GetStateValue(config.current_l1_entity, 0)
        current_l2 == GetStateValue(config.current_l2_entity, 0)
        current_l3 == GetStateValue(config.current_l3_entity, 0)
    IN  Voltage(config.voltage_l1_entity) * current_l1
          + Voltage(config.voltage_l2_entity) * current_l2
          + Voltage(config.voltage_l3_entity) * current_l3

CalculateChargerPower ==
    LET charger_l1 == GetStateValue(config.charger_current_l1_entity, 0)
        charger_l2 == GetStateValue(config.charger_current_l2_entity, 0)
        charger_l3 == GetStateValue(config.charger_current_l3_entity, 0)
    IN  Voltage(config.voltage_l1_entity) * charger_l1
          + Voltage(config.voltage_l2_entity) * charger_l2
          + Voltage(config.voltage_l3_entity) * charger_l3

\* _is_charging_enabled: the entity looked up is switch.<DOMAIN>_charging_enabled_<entry>
ToggleLookupId == "switch." \o DOMAIN_NAME \o "_charging_enabled_" \o EntryId

IsChargingEnabled ==
    IF Missing(ToggleLookupId) THEN TRUE ELSE states[ToggleLookupId] = ON

\* _get_max_current_cap: the entity looked up is select.<DOMAIN>_max_charging_current_cap_<entry>
CapLookupId == "select." \o DOMAIN_NAME \o "_max_charging_current_cap_" \o EntryId

GetMaxCurrentCap ==
    IF Missing(CapLookupId) \/ states[CapLookupId] = UNAVAILABLE THEN 16
    ELSE LET r == ParseInt(states[CapLookupId])
         IN  IF r.ok THEN r.val ELSE 16

(***************************************************************************)
(* The decision (sensor.py 227-293, 445-462, 492-549).                     *)
(***************************************************************************)
\* A faulty variant of CalculateChargingAllowed, to compare with: it allows an average equal to the budget.
CalculateChargingAllowedLax ==
    LET avg_import_15min == GetStateValue(config.avg_import_power_15min_entity, 0)
        max_import       == GetStateValue(config.max_import_power_entity, 0)
    IN  IF max_import <= 0 THEN FALSE ELSE avg_import_15min <= max_import

\* A faulty variant of CalculateChargingAllowed, to compare with: the average is the
\* one of the 15-minute window of ChargingAllowedSensor.
CalculateChargingAllowedInternal ==
    LET average    == GetAverage(power_window_15min["ChargingAllowedSensor"], now,
                                 window_seconds("power_window_15min"))
        max_import == GetStateValue(config.max_import_power_entity, 0)
    IN  IF max_import <= 0 THEN FALSE
        ELSE IF average.none THEN TRUE
        ELSE average.num < max_import * average.den

CalculateChargingAllowed ==
    LET avg_import_15min == GetStateValue(config.avg_import_power_15min_entity, 0)
        max_import       == GetStateValue(config.max_import_power_entity, 0)
    IN  IF max_import <= 0 THEN FALSE ELSE avg_import_15min < max_import

\* A faulty variant of FloorDiv, to compare with: it rounds up.
FloorDivUp(a, b) == IF b > 0 THEN 0 - ((0 - a) \div b) ELSE 0 - (a \div (0 - b))

\* math.floor(a / b) for b # 0
FloorDiv(a, b) == IF b > 0 THEN a \div b ELSE (0 - a) \div (0 - b)

\* A faulty variant of AvailablePower, to compare with: the instantaneous power is used
\* whatever the window holds.
AvailablePowerInstant(measurements) ==
    LET Headroom(max_import_power, current_power, charger_power) ==
            [num |-> max_import_power - (current_power - charger_power), den |-> 1]
    IN  CHOOSE r \in
            {Headroom(max_import_power, current_power, charger_power) :
                max_import_power \in {GetStateValue(config.max_import_power_entity, 0)},
                current_power \in {CalculateCurrentPower},
                charger_power \in {CalculateChargerPower}} : TRUE

\* available_power as the fraction num / den, den > 0: max_import_power - base_power,
\* where base_power = avg_power_30s - charger_power and avg_power_30s is the window's
\* average or, when that is None, _calculate_current_power() or 0.  (The readings are
\* bound, here and below, so that each is computed once.)
AvailablePower(measurements) ==
    LET Headroom(max_import_power, average, charger_power) ==
            LET avg_power_30s == IF average.none
                                 THEN [num |-> CalculateCurrentPower, den |-> 1]
                                 ELSE average
            IN  [num |-> max_import_power * avg_power_30s.den
                           - (avg_power_30s.num - charger_power * avg_power_30s.den),
                 den |-> avg_power_30s.den]
    IN  CHOOSE r \in
            {Headroom(max_import_power, average, charger_power) :
                max_import_power \in {GetStateValue(config.max_import_power_entity, 0)},
                average \in {GetAverage(measurements, now,
                                        window_seconds("power_window_30s"))},
                charger_power \in {CalculateChargerPower}} : TRUE

\* 3 * avg_voltage, avg_voltage being (voltage_l1 + voltage_l2 + voltage_l3) / 3
ThreeAvgVoltage ==
    Voltage(config.voltage_l1_entity) + Voltage(config.voltage_l2_entity)
        + Voltage(config.voltage_l3_entity)

\* A faulty variant of Clamp, to compare with: it ignores the cap.
ClampNoCap(max_current_int, max_current_cap) ==
    IF max_current_int < 6 THEN 6 ELSE max_current_int

\* The clamp of lines 283-289; available_power > 0 here.
Clamp(max_current_int, max_current_cap) ==
    IF max_current_int < 6 THEN 6
    ELSE IF max_current_int > max_current_cap THEN max_current_cap
    ELSE max_current_int

\* A faulty variant of CalculateMaxCurrent, to compare with: no current when charging
\* is not allowed.
CalculateMaxCurrentIfAllowed(measurements) ==
    LET MaxCurrent(available_power, three_avg_voltage) ==
            IF ~CalculateChargingAllowed THEN 0
            ELSE IF available_power.num <= 0 THEN 0
            ELSE IF three_avg_voltage = 0 THEN 0
            ELSE Clamp(FloorDiv(available_power.num,
                                available_power.den * three_avg_voltage),
                       GetMaxCurrentCap)
    IN  CHOOSE r \in {MaxCurrent(available_power, three_avg_voltage) :
                         available_power \in {AvailablePower(measurements)},
                         three_avg_voltage \in {ThreeAvgVoltage}} : TRUE

\* _calculate_max_current.  The division raises ZeroDivisionError when the three
\* voltages add up to 0; the except clause then returns 0.
CalculateMaxCurrent(measurements) ==
    LET MaxCurrent(available_power, three_avg_voltage) ==
            IF available_power.num <= 0 THEN 0
            ELSE IF three_avg_voltage = 0 THEN 0
            ELSE Clamp(FloorDiv(available_power.num,
                                available_power.den * three_avg_voltage),
                       GetMaxCurrentCap)
    IN  CHOOSE r \in {MaxCurrent(available_power, three_avg_voltage) :
                         available_power \in {AvailablePower(measurements)},
                         three_avg_voltage \in {ThreeAvgVoltage}} : TRUE

\* ChargingAllowedSensor.native_value
NativeValueAllowed ==
    IF ~IsChargingEnabled THEN FALSE
    ELSE LET avg_import_15min == GetStateValue(config.avg_import_power_15min_entity, 0)
             max_import       == GetStateValue(config.max_import_power_entity, 0)
         IN  IF max_import <= 0 THEN FALSE ELSE avg_import_15min < max_import

\* MaxChargingCurrentSensor.native_value
NativeValueMaxCurrent(measurements) ==
    LET MaxCurrent(available_power, three_avg_voltage) ==
            IF available_power.num <= 0 THEN 0
            ELSE IF three_avg_voltage = 0 THEN 0
            ELSE Clamp(FloorDiv(available_power.num,
                                available_power.den * three_avg_voltage),
                       GetMaxCurrentCap)
    IN  IF ~IsChargingEnabled THEN 0
        ELSE CHOOSE r \in {MaxCurrent(available_power, three_avg_voltage) :
                              available_power \in {AvailablePower(measurements)},
                              three_avg_voltage \in {ThreeAvgVoltage}} : TRUE

(***************************************************************************)
(* Actuator reconciliation (sensor.py 134-225).                            *)
(***************************************************************************)
NoCommand == [service |-> "none", domain |-> "", entity |-> "", option |-> <<>>]

Command(domain, service, entity, option) ==
    [service |-> service, domain |-> domain, entity |-> entity, option |-> option]

\* A faulty variant of SwitchCommand, to compare with: it commands the switch whatever it reports.
SwitchCommandAlways(should_charge) ==
    LET id == config.charger_switch_entity
    IN  IF Missing(id) THEN NoCommand
        ELSE IF should_charge THEN Command("switch", "turn_on", id, <<>>)
        ELSE Command("switch", "turn_off", id, <<>>)

\* _control_charger_switch(should_charge): the service call it makes, if any
SwitchCommand(should_charge) ==
    LET id == config.charger_switch_entity
    IN  IF Missing(id) THEN NoCommand
        ELSE LET current_is_on == states[id] = ON
             IN  IF should_charge /\ ~current_is_on
                 THEN Command("switch", "turn_on", id, <<>>)
                 ELSE IF ~should_charge /\ current_is_on
                 THEN Command("switch", "turn_off", id, <<>>)
                 ELSE NoCommand

\* (int, str) tuples as Python compares them
TupleLeq(x, y) == x[1] < y[1] \/ (x[1] = y[1] /\ (x[2] = y[2] \/ StrLess(x[2], y[2])))

NotSelected == [found |-> FALSE, option |-> <<>>]

\* A faulty variant of SelectedOption, to compare with: it takes the nearest level, above or below.
SelectedOptionNearest(options, target_current) ==
    LET parsed == {o \in options : ParseInt(o).ok}
    IN  IF parsed = {} THEN NotSelected
        ELSE [found |-> TRUE,
              option |-> CHOOSE o \in parsed : \A q \in parsed :
                  LET d(x) == IF ParseInt(x).val >= target_current
                              THEN ParseInt(x).val - target_current
                              ELSE target_current - ParseInt(x).val
                  IN  d(o) < d(q) \/ (d(o) = d(q) /\ TupleLeq(<<0, q>>, <<0, o>>))]

\* Lines 193-213: the option for target_current, none when no option is <= target
\* A faulty variant of SelectedOption, to compare with: without a level <= target the
\* lowest level is chosen.
SelectedOptionOrLowest(options, target_current) ==
    LET target_str == Str(target_current)
        levels == {<<ParseInt(o).val, o>> : o \in {q \in options : ParseInt(q).ok}}
    IN  IF target_str \in options THEN [found |-> TRUE, option |-> target_str]
        ELSE LET available_currents == {x \in levels : x[1] <= target_current}
             IN  IF levels = {} THEN NotSelected
                 ELSE IF available_currents = {}
                 THEN [found |-> TRUE,
                       option |-> (CHOOSE x \in levels : \A y \in levels : TupleLeq(x, y))[2]]
                 ELSE [found |-> TRUE,
                       option |-> (CHOOSE x \in available_currents :
                                     \A y \in available_currents : TupleLeq(y, x))[2]]

SelectedOption(options, target_current) ==
    LET target_str == Str(target_current)
    IN  IF target_str \in options THEN [found |-> TRUE, option |-> target_str]
        ELSE LET available_currents ==
                     {<<ParseInt(o).val, o>> : o \in
                         {q \in options : ParseInt(q).ok /\ ParseInt(q).val <= target_current}}
             IN  IF available_currents = {} THEN NotSelected
                 ELSE [found |-> TRUE,
                       option |-> (CHOOSE x \in available_currents :
                                     \A y \in available_currents : TupleLeq(y, x))[2]]

\* entity_id.startswith("input_select.")
IsInputSelect(id) == \E object_id \in {"charger_current"} : id = "input_select." \o object_id

\* A faulty variant of SelectCommand, to compare with: it commands the selector whatever it reports.
SelectCommandAlways(target_current) ==
    LET id == config.charger_current_select_entity
    IN  IF Missing(id) \/ select_options = {} THEN NoCommand
        ELSE LET selected == SelectedOption(select_options, target_current)
             IN  IF ~selected.found THEN NoCommand
                 ELSE Command(IF IsInputSelect(id) THEN "input_select" ELSE "select",
                              "select_option", id, selected.option)

\* _control_charger_current(target_current): the service call it makes, if any
SelectCommand(target_current) ==
    LET id == config.charger_current_select_entity
    IN  IF Missing(id) \/ select_options = {} THEN NoCommand
        ELSE LET selected == SelectedOption(select_options, target_current)
             IN  IF ~selected.found THEN NoCommand
                 ELSE IF states[id] # selected.option
                 THEN Command(IF IsInputSelect(id) THEN "input_select" ELSE "select",
                              "select_option", id, selected.option)
                 ELSE NoCommand

\* A faulty variant of ShouldCharge, to compare with: it charges when either condition holds.
ShouldChargeEither(charging_enabled, charging_allowed) == charging_enabled \/ charging_allowed

\* should_charge of line 146
ShouldCharge(charging_enabled, charging_allowed) == charging_enabled /\ charging_allowed

\* A faulty variant of ControlsCurrent, to compare with: it controls the selector whenever it is configured.
ControlsCurrentAlways(charging_enabled, charging_allowed) ==
    config.charger_current_select_entity # NoEntity

\* The condition of line 149
ControlsCurrent(charging_enabled, charging_allowed) ==
    config.charger_current_select_entity # NoEntity /\ charging_enabled /\ charging_allowed

(***************************************************************************)
(* The _update_charger_control tasks.  A task runs without interruption up *)
(* to an awaited service call and may be suspended there.                  *)
(***************************************************************************)
TaskIds == 1..MaxTasks

NoTask == [pc |-> "idle", sensor |-> "", charging_enabled |-> FALSE,
           charging_allowed |-> FALSE, max_current |-> 0, selected |-> NotSelected,
           cmds |-> <<>>]

NewTask(sensor) == [NoTask EXCEPT !.pc = "created", !.sensor = sensor]

\* hass.async_create_task(sensor._update_charger_control()): the new task takes slot i;
\* the records of finished tasks are dropped
CreateTask(i, sensor) ==
    [j \in TaskIds |-> IF j = i THEN NewTask(sensor)
                       ELSE IF tasks[j].pc = "done" THEN NoTask ELSE tasks[j]]

Active(i) == tasks[i].pc \in {"created", "switch_called", "select_called"}

Free(i) == ~Active(i) /\ \A j \in TaskIds : j < i => Active(j)

\* chain describes the reconciliation that started last: its decision, the states the
\* charger's entities reported when it started, the calls it made, whether it has run
\* undisturbed (intact: nothing else was running or in flight, no call raised, the
\* charger did not change by itself), and how it relates to the one before it (repeat:
\* same decision and same reported states when it started; settled: same decision, and
\* the one before ran undisturbed and the charger has handled all its commands).
NoChain == [stage |-> 0, task |-> 0, decision |-> <<FALSE, FALSE, 0>>, reported |-> <<>>,
            calls |-> 0, intact |-> FALSE, repeat |-> FALSE, settled |-> FALSE,
            prev_calls |-> 0]

\* The states of the charger's entities as the reconciler reads them
Reported ==
    [id \in {config.charger_switch_entity, config.charger_current_select_entity}
              \cap DOMAIN states |-> states[id]]

Decision(t) == <<t.charging_enabled, t.charging_allowed, t.max_current>>

\* hass.services.async_call(domain, service, {...}) made by task i, whose record is t:
\* the call raises (a failure of the environment, counted with its changes), or the
\* command is accepted.  reported is the state the method read.
Call(i, t, cmd, pc, link) ==
    \E raised \in {r \in BOOLEAN : r => env_changes < MaxEnvChanges} :
        /\ tasks' = [tasks EXCEPT ![i] =
               [t EXCEPT !.pc = pc,
                         !.cmds = Append(@, [cmd |-> cmd, reported |-> states[cmd.entity],
                                             raised |-> raised])]]
        /\ inflight' = IF raised THEN inflight ELSE inflight \cup {cmd}
        /\ env_changes' = IF raised THEN env_changes + 1 ELSE env_changes
        /\ chain' = [link EXCEPT !.intact = @ /\ ~raised,
                                 !.calls = IF link.task = i THEN @ + 1 ELSE @]

\* selected_option of _control_charger_current, when the method gets that far
Selected(target_current) ==
    IF Missing(config.charger_current_select_entity) \/ select_options = {}
    THEN NotSelected
    ELSE SelectedOption(select_options, target_current)

\* A faulty variant of CurrentPhase, to compare with: a failure of the switch's
\* reconciliation (no state for the switch, or a call that raised) ends the evaluation.
CurrentPhaseUnlessFailed(i, t, link) ==
    LET failed == \/ /\ config.charger_switch_entity # NoEntity
                      /\ Missing(config.charger_switch_entity)
                  \/ \E k \in 1..Len(t.cmds) : t.cmds[k].raised
        controls == ControlsCurrent(t.charging_enabled, t.charging_allowed) /\ ~failed
        cmd == IF controls THEN SelectCommand(t.max_current) ELSE NoCommand
        u   == [t EXCEPT !.selected = IF controls THEN Selected(t.max_current)
                                      ELSE NotSelected]
    IN  IF cmd.service # "none" THEN Call(i, u, cmd, "select_called", link)
        ELSE /\ tasks' = [tasks EXCEPT ![i] = [u EXCEPT !.pc = "done"]]
             /\ inflight' = inflight
             /\ env_changes' = env_changes
             /\ chain' = link

\* Lines 148-150, by task i with record t.  _control_charger_switch has returned: it
\* catches every exception of its body, and returns early when the switch has no state.
CurrentPhase(i, t, link) ==
    LET controls == ControlsCurrent(t.charging_enabled, t.charging_allowed)
        cmd == IF controls THEN SelectCommand(t.max_current) ELSE NoCommand
        u   == [t EXCEPT !.selected = IF controls THEN Selected(t.max_current)
                                      ELSE NotSelected]
    IN  IF cmd.service # "none" THEN Call(i, u, cmd, "select_called", link)
        ELSE /\ tasks' = [tasks EXCEPT ![i] = [u EXCEPT !.pc = "done"]]
             /\ inflight' = inflight
             /\ env_changes' = env_changes
             /\ chain' = link

\* A faulty variant of Evaluation, to compare with: the service's temporary sensor
\* uses the 30 s window of the running MaxChargingCurrentSensor.
EvaluationWithRunningWindow(i) ==
    [tasks[i] EXCEPT
        !.charging_enabled = IsChargingEnabled,
        !.charging_allowed = CalculateChargingAllowed,
        !.max_current = CalculateMaxCurrent(IF tasks[i].sensor \in Sensors
                                            THEN power_window_30s[tasks[i].sensor]
                                            ELSE power_window_30s["MaxChargingCurrentSensor"])]

\* Lines 138-142 for task i: the toggle is read and the decision computed, with the
\* 30 s window of the task's sensor (the service's temporary sensor has fresh windows)
Evaluation(i) ==
    [tasks[i] EXCEPT
        !.charging_enabled = IsChargingEnabled,
        !.charging_allowed = CalculateChargingAllowed,
        !.max_current = CalculateMaxCurrent(IF tasks[i].sensor \in Sensors
                                            THEN power_window_30s[tasks[i].sensor]
                                            ELSE <<>>)]

\* The history entry for task i starting with record t
Link(i, t) ==
    LET alone == inflight = {} /\ \A j \in TaskIds \ {i} : ~Active(j)
        after == chain.stage > 0 /\ \A j \in TaskIds \ {i} : ~Active(j)
        same  == chain.decision = Decision(t)
    IN  [stage |-> 1, task |-> i, decision |-> Decision(t),
         reported |-> Reported, calls |-> 0, intact |-> alone,
         repeat |-> after /\ same /\ chain.reported = Reported,
         settled |-> after /\ same /\ chain.intact /\ inflight = {},
         prev_calls |-> chain.calls]

\* Lines 144-146: the call for the switch, if it is configured and one is needed
SwitchPhaseCommand(t) ==
    IF config.charger_switch_entity # NoEntity
    THEN SwitchCommand(ShouldCharge(t.charging_enabled, t.charging_allowed))
    ELSE NoCommand

\* Lines 136-146: the readings are taken, the decision computed (get_average purges
\* the sensor's own 30 s window), then the switch is controlled and, unless the task
\* is suspended in the switch call, the selector.
TaskStart(i) ==
    /\ tasks[i].pc = "created"
    /\ \E t \in {Evaluation(i)} : \E link \in {Link(i, t)} :
       \E cmd \in {SwitchPhaseCommand(t)} :
          IF cmd.service # "none" THEN Call(i, t, cmd, "switch_called", link)
          ELSE CurrentPhase(i, t, link)
    /\ power_window_30s' =
          IF tasks[i].sensor \in Sensors
          THEN [power_window_30s EXCEPT ![tasks[i].sensor] =
                   Cleanup(@, now, window_seconds("power_window_30s"))]
          ELSE power_window_30s
    /\ UNCHANGED <<now, hassVars, schedVars, power_window_15min, pwHistory>>

\* The event loop has run the state writes that were scheduled: a service call
\* returns, and the charger handles a command, only after that.
WritesDone == \A s \in Sensors : ~pending_update[s]

\* A faulty variant of TaskAfterSwitch, to compare with: the task takes its decision
\* again when it resumes.
TaskAfterSwitchReevaluating(i) ==
    /\ tasks[i].pc = "switch_called"
    /\ WritesDone
    /\ \E t \in {Evaluation(i)} : CurrentPhase(i, t, chain)
    /\ UNCHANGED <<now, hassVars, schedVars, windowVars, pwHistory>>

\* The task resumes after the switch call: lines 148-150
TaskAfterSwitch(i) ==
    /\ tasks[i].pc = "switch_called"
    /\ WritesDone
    /\ CurrentPhase(i, tasks[i], chain)
    /\ UNCHANGED <<now, hassVars, schedVars, windowVars, pwHistory>>

\* The task resumes after the select call and ends
TaskAfterSelect(i) ==
    /\ tasks[i].pc = "select_called"
    /\ WritesDone
    /\ tasks' = [tasks EXCEPT ![i].pc = "done"]
    /\ UNCHANGED <<now, hassVars, schedVars, env_changes, windowVars, pwHistory, inflight,
                   chain>>

(***************************************************************************)
(* The sensors' callbacks (sensor.py 338-363) and the state write.         *)
(***************************************************************************)
\* A faulty variant of UpdatePowerMeasurements, to compare with: _last_update is not set.
UpdatePowerMeasurementsUnstamped(s) ==
    /\ now >= next_fire[s]
    /\ next_fire' = [next_fire EXCEPT ![s] = @ + config.update_interval]
    /\ LET current_power == CalculateCurrentPower
       IN  /\ power_window_30s' = [power_window_30s EXCEPT ![s] =
                  AddMeasurement(@, current_power, now, window_seconds("power_window_30s"))]
           /\ power_window_15min' = [power_window_15min EXCEPT ![s] =
                  AddMeasurement(@, current_power, now,
                                 window_seconds("power_window_15min"))]
    /\ last_update' = last_update
    /\ IF config.charger_switch_entity # NoEntity
             \/ config.charger_current_select_entity # NoEntity
       THEN \E i \in TaskIds : Free(i) /\ tasks' = CreateTask(i, s)
       ELSE tasks' = tasks
    /\ pending_update' = [pending_update EXCEPT ![s] = TRUE]
    /\ UNCHANGED <<now, hassVars, native_value, notified, env_changes, inflight, chain,
                   pwHistory>>

\* A faulty variant of UpdatePowerMeasurements, to compare with: the two attributes name
\* one container, that of the 30 s window.
UpdatePowerMeasurementsShared(s) ==
    /\ now >= next_fire[s]
    /\ next_fire' = [next_fire EXCEPT ![s] = @ + config.update_interval]
    /\ LET current_power == CalculateCurrentPower
       IN  /\ power_window_30s' = [power_window_30s EXCEPT ![s] =
                  AddMeasurement(@, current_power, now, window_seconds("power_window_30s"))]
           /\ power_window_15min' = [power_window_15min EXCEPT ![s] =
                  AddMeasurement(power_window_30s[s], current_power, now,
                                 window_seconds("power_window_30s"))]
    /\ last_update' = [last_update EXCEPT ![s] = now]
    /\ IF config.charger_switch_entity # NoEntity
             \/ config.charger_current_select_entity # NoEntity
       THEN \E i \in TaskIds : Free(i) /\ tasks' = CreateTask(i, s)
       ELSE tasks' = tasks
    /\ pending_update' = [pending_update EXCEPT ![s] = TRUE]
    /\ UNCHANGED <<now, hassVars, native_value, notified, env_changes, inflight, chain,
                   pwHistory>>

\* _update_power_measurements of sensor s, called by its interval timer
UpdatePowerMeasurements(s) ==
    /\ now >= next_fire[s]
    /\ next_fire' = [next_fire EXCEPT ![s] = @ + config.update_interval]
    /\ LET current_power == CalculateCurrentPower
       IN  /\ power_window_30s' = [power_window_30s EXCEPT ![s] =
                  AddMeasurement(@, current_power, now, window_seconds("power_window_30s"))]
           /\ power_window_15min' = [power_window_15min EXCEPT ![s] =
                  AddMeasurement(@, current_power, now,
                                 window_seconds("power_window_15min"))]
    /\ last_update' = [last_update EXCEPT ![s] = now]
    /\ IF config.charger_switch_entity # NoEntity
             \/ config.charger_current_select_entity # NoEntity
       THEN \E i \in TaskIds : Free(i) /\ tasks' = CreateTask(i, s)
       ELSE tasks' = tasks
    /\ pending_update' = [pending_update EXCEPT ![s] = TRUE]
    /\ UNCHANGED <<now, hassVars, native_value, notified, env_changes, inflight, chain,
                   pwHistory>>

\* A faulty variant of HandleStateChange, to compare with: the interval must have been
\* exceeded, not just reached.
HandleStateChangeStrict ==
    LET due(s) == last_update[s] = NoTime
                     \/ now - last_update[s] > config.update_interval
    IN  /\ last_update' = [s \in Sensors |-> IF due(s) THEN now ELSE last_update[s]]
        /\ pending_update' = [s \in Sensors |-> due(s) \/ pending_update[s]]
        /\ notified' = [s \in Sensors |->
               IF due(s) THEN Append(notified[s], now) ELSE notified[s]]

\* _handle_state_change of every sensor, called one after the other for a state change
\* event of a tracked entity (each sensor tracks every configured source)
HandleStateChange ==
    LET due(s) == last_update[s] = NoTime
                     \/ now - last_update[s] >= config.update_interval
    IN  /\ last_update' = [s \in Sensors |-> IF due(s) THEN now ELSE last_update[s]]
        /\ pending_update' = [s \in Sensors |-> due(s) \/ pending_update[s]]
        /\ notified' = [s \in Sensors |->
               IF due(s) THEN Append(notified[s], now) ELSE notified[s]]

\* The state write scheduled by async_schedule_update_ha_state(True): native_value and
\* extra_state_attributes are read (the latter calls get_average on the 30 s window of
\* MaxChargingCurrentSensor).  The event loop runs it after the control task that
\* _update_power_measurements created just before scheduling it.
UpdateHaState(s) ==
    /\ pending_update[s]
    /\ \A i \in TaskIds : ~(tasks[i].pc = "created" /\ tasks[i].sensor = s)
    /\ pending_update' = [pending_update EXCEPT ![s] = FALSE]
    /\ IF s = "ChargingAllowedSensor"
       THEN /\ native_value' = [native_value EXCEPT ![s] =
                   [written |-> TRUE, value |-> NativeValueAllowed]]
            /\ UNCHANGED power_window_30s
       ELSE /\ native_value' = [native_value EXCEPT ![s] =
                   [written |-> TRUE, value |-> NativeValueMaxCurrent(power_window_30s[s])]]
            /\ power_window_30s' = [power_window_30s EXCEPT ![s] =
                   Cleanup(@, now, window_seconds("power_window_30s"))]
    /\ UNCHANGED <<now, hassVars, last_update, next_fire, notified, env_changes, taskVars,
                   power_window_15min, pwHistory>>

\* update_charger_from_calculations(hass, entry_id), from the update_charger service
\* (__init__.py 26-44): a temporary sensor reconciles; its windows are empty.
UpdateChargerFromCalculations ==
    /\ env_changes < MaxEnvChanges
    /\ env_changes' = env_changes + 1
    /\ \E entry_id \in {EntryId} :
          IF entry_id = EntryId
          THEN \E i \in TaskIds : Free(i) /\ tasks' = CreateTask(i, "temp")
          ELSE tasks' = tasks
    /\ UNCHANGED <<now, hassVars, schedVars, inflight, chain, windowVars, pwHistory>>

(***************************************************************************)
(* The user's controls (switch.py 71-81, select.py 81-88).                 *)
(***************************************************************************)
\* hass.states.async_set(id, value)
SetState(id, value) ==
    [x \in DOMAIN states \cup {id} |-> IF x = id THEN value ELSE states[x]]

\* ChargingEnabledSwitch.async_turn_on / async_turn_off
TurnSwitch(value) ==
    /\ env_changes < MaxEnvChanges
    /\ env_changes' = env_changes + 1
    /\ is_on' = value
    /\ states' = SetState(entity_id.toggle, IF value THEN ON ELSE OFF)
    /\ UNCHANGED <<now, config, entity_id, select_options, current_option, schedVars,
                   taskVars, windowVars, pwHistory>>

AsyncTurnOn == TurnSwitch(TRUE)

AsyncTurnOff == TurnSwitch(FALSE)

\* MaxChargingCurrentSelect._attr_options
CapOptions == {Str(i) : i \in 6..32}

\* MaxChargingCurrentSelect.async_select_option(option)
AsyncSelectOption(option) ==
    /\ env_changes < MaxEnvChanges
    /\ env_changes' = env_changes + 1
    /\ IF option \in CapOptions
       THEN /\ current_option' = option
            /\ states' = SetState(entity_id.cap, option)
       ELSE UNCHANGED <<current_option, states>>
    /\ UNCHANGED <<now, config, entity_id, select_options, is_on, schedVars, taskVars,
                   windowVars, pwHistory>>

(***************************************************************************)
(* The environment: the clock, the metering sources, the charger.          *)
(***************************************************************************)
\* Time passes, once the timers that are due have fired and the event loop has run
\* the tasks and state writes that were ready.
Advance ==
    /\ \A s \in Sensors : now < next_fire[s] /\ ~pending_update[s]
    /\ \A i \in TaskIds : tasks[i].pc # "created"
    /\ \E d \in {config.update_interval} : now + d <= MaxTime /\ now' = now + d
    /\ UNCHANGED <<hassVars, schedVars, env_changes, taskVars, windowVars, pwHistory>>

\* The charger handles an accepted command and reports the new state.
Deliver(cmd) ==
    /\ cmd \in inflight
    /\ WritesDone
    /\ inflight' = inflight \ {cmd}
    /\ states' = IF Missing(cmd.entity) THEN states
                 ELSE SetState(cmd.entity,
                               IF cmd.service = "turn_on" THEN ON
                               ELSE IF cmd.service = "turn_off" THEN OFF
                               ELSE cmd.option)
    /\ UNCHANGED <<now, config, entity_id, select_options, is_on, current_option,
                   schedVars, env_changes, tasks, chain, windowVars, pwHistory>>

\* The keys of config_entry.data that name the metering sources (sensor.py 84-94)
ReadingKeys == {"max_import_power_entity", "avg_import_power_15min_entity",
                "current_l1_entity", "current_l2_entity", "current_l3_entity",
                "voltage_l1_entity", "voltage_l2_entity", "voltage_l3_entity",
                "charger_current_l1_entity", "charger_current_l2_entity",
                "charger_current_l3_entity"}

\* A configuration with every source and both of the charger's entities
FullConfig ==
    [update_interval |-> 10,
     max_import_power_entity |-> "sensor.max_import_power",
     avg_import_power_15min_entity |-> "sensor.avg_import_power_15min",
     current_l1_entity |-> "sensor.current_l1",
     current_l2_entity |-> "sensor.current_l2",
     current_l3_entity |-> "sensor.current_l3",
     voltage_l1_entity |-> "sensor.voltage_l1",
     voltage_l2_entity |-> "sensor.voltage_l2",
     voltage_l3_entity |-> "sensor.voltage_l3",
     charger_current_l1_entity |-> "sensor.charger_current_l1",
     charger_current_l2_entity |-> "sensor.charger_current_l2",
     charger_current_l3_entity |-> "sensor.charger_current_l3",
     charger_switch_entity |-> "switch.charger",
     charger_current_select_entity |-> "select.charger_current"]

ReadingIds == {FullConfig[k] : k \in ReadingKeys}

\* In a table of readings, the mark of a source that has no state
ABSENT == <<"(no state)">>

\* The states of the sources: r maps each key to a state string or ABSENT
ReadingStates(r) ==
    LET keys == {k \in ReadingKeys : r[k] # ABSENT}
    IN  [id \in {FullConfig[k] : k \in keys} |->
            r[CHOOSE k \in keys : FullConfig[k] = id]]

\* f with the entries of g added or replaced
Merge(f, g) ==
    [x \in DOMAIN f \cup DOMAIN g |-> IF x \in DOMAIN g THEN g[x] ELSE f[x]]

Without(f, ids) == [x \in DOMAIN f \ ids |-> f[x]]

\* Readings by their numbers: import budget, 15 min average, current and voltage of
\* phase 1, charger current of phase 1; phases 2 and 3 carry no current.
Scenario(max_import, avg_import, current_l1, voltage, charger_l1) ==
    [k \in ReadingKeys |->
        CASE k = "max_import_power_entity" -> Str(max_import)
          [] k = "avg_import_power_15min_entity" -> Str(avg_import)
          [] k = "current_l1_entity" -> Str(current_l1)
          [] k = "charger_current_l1_entity" -> Str(charger_l1)
          [] k \in {"voltage_l1_entity", "voltage_l2_entity", "voltage_l3_entity"} ->
                 Str(voltage)
          [] OTHER -> Str(0)]

\* The metering sources report new values; the state change event reaches the sensors.
\* A faulty variant of ReadingsChange, to compare with: the notification starts a
\* reconciliation.
ReadingsChangeReconciling(r) ==
    /\ env_changes < MaxEnvChanges
    /\ env_changes' = env_changes + 1
    /\ states' = Merge(Without(states, ReadingIds), ReadingStates(r))
    /\ states' # states
    /\ HandleStateChange
    /\ \E i \in TaskIds : Free(i) /\ tasks' = CreateTask(i, "ChargingAllowedSensor")
    /\ UNCHANGED <<now, config, entity_id, select_options, is_on, current_option,
                   native_value, next_fire, inflight, chain, windowVars, pwHistory>>

ReadingsChange(r) ==
    /\ env_changes < MaxEnvChanges
    /\ env_changes' = env_changes + 1
    /\ states' = Merge(Without(states, ReadingIds), ReadingStates(r))
    /\ states' # states
    /\ HandleStateChange
    /\ UNCHANGED <<now, config, entity_id, select_options, is_on, current_option,
                   native_value, next_fire, taskVars, windowVars, pwHistory>>

\* The same, as often as the sources like (the changes are not counted).
SourceChange(r) ==
    /\ states' = Merge(Without(states, ReadingIds), ReadingStates(r))
    /\ states' # states
    /\ HandleStateChange
    /\ UNCHANGED <<now, config, entity_id, select_options, is_on, current_option,
                   native_value, next_fire, env_changes, taskVars, windowVars, pwHistory>>

\* The charger's switch changes by itself (the car, the user, the device going away).
ChargerChange(value) ==
    /\ env_changes < MaxEnvChanges
    /\ env_changes' = env_changes + 1
    /\ ~Missing(config.charger_switch_entity)
    /\ states[config.charger_switch_entity] # value
    /\ states' = SetState(config.charger_switch_entity, value)
    /\ chain' = [chain EXCEPT !.intact = FALSE]
    /\ UNCHANGED <<now, config, entity_id, select_options, is_on, current_option,
                   schedVars, tasks, inflight, windowVars, pwHistory>>

(***************************************************************************)
(* Initial states.                                                         *)
(***************************************************************************)
\* The entity ids of the two controls.  The host derives an id from the device and
\* entity names ("Charging Control", "Allow charging", "Max Charging Current"); the
\* user may rename an entity, among others to the id the sensors look up.
ToggleEntityIds == {"switch.charging_control_allow_charging", ToggleLookupId}

CapEntityIds == {"select.charging_control_max_charging_current", CapLookupId}

\* ChargingControlSensorBase.__init__ (sensor.py 100-106)
InitSensors ==
    /\ power_window_30s = [s \in Sensors |-> <<>>]
    /\ power_window_15min = [s \in Sensors |-> <<>>]
    /\ last_update = [s \in Sensors |-> NoTime]
    /\ notified = [s \in Sensors |-> <<>>]
    /\ native_value = [s \in Sensors |->
           IF s = "ChargingAllowedSensor" THEN [written |-> FALSE, value |-> FALSE]
           ELSE [written |-> FALSE, value |-> 0]]

InitTasks ==
    /\ tasks = [i \in TaskIds |-> NoTask]
    /\ inflight = {}
    /\ chain = NoChain
    /\ env_changes = 0

\* The charger's current select offers these levels
ChargerLevels == {Str(6), Str(10), Str(13), Str(16), Str(20), Str(32)}

(***************************************************************************)
(* SpecPW: the PowerWindow operations called in any order on the windows   *)
(* of one sensor, with timestamps taken from a clock that never goes back. *)
(***************************************************************************)
PWSensor == "MaxChargingCurrentSensor"

PWPowers == {0 - 400, 3000}

\* The clock moves by a third of the window or by a whole window.
PWTimeSteps(w) == {window_seconds(w) \div 3, window_seconds(w)}

NoCall(w) == [op |-> "none", w |-> w, t |-> 0, power |-> 0, result |-> NoAverage]

\* Each behaviour exercises one of the two windows, pw_last.w.
InitPW ==
    /\ now = 0
    /\ InitSensors
    /\ InitTasks
    /\ config = FullConfig
    /\ entity_id = [toggle |-> ToggleLookupId, cap |-> CapLookupId]
    /\ is_on = TRUE
    /\ current_option = Str(16)
    /\ states = Merge(ReadingStates(Scenario(5000, 4000, 10, 230, 0)),
                      [id \in {ToggleLookupId, CapLookupId} |->
                          IF id = ToggleLookupId THEN ON ELSE Str(16)])
    /\ select_options = ChargerLevels
    /\ next_fire = [s \in Sensors |-> config.update_interval]
    /\ pending_update = [s \in Sensors |-> FALSE]
    /\ pw_inserted = [w \in Windows |-> <<>>]
    /\ pw_adds = 0
    /\ \E w \in Windows : pw_last = NoCall(w)

PWAdvance ==
    /\ \E d \in PWTimeSteps(pw_last.w) :
           /\ now + d <= MaxTimeUnits * (window_seconds(pw_last.w) \div 3)
           /\ now' = now + d
    /\ UNCHANGED <<hassVars, schedVars, taskVars, env_changes, windowVars, pw_inserted, pw_adds,
                 pw_last>>

PWAdd ==
    \E p \in PWPowers :
        LET w == pw_last.w
        IN  /\ pw_adds < MaxSamples
            /\ pw_adds' = pw_adds + 1
            /\ SetMeasurements(PWSensor, w,
                   AddMeasurement(Measurements(PWSensor, w), p, now, window_seconds(w)))
            /\ pw_inserted' = [pw_inserted EXCEPT ![w] = Append(@, <<p, now>>)]
            /\ pw_last' = [op |-> "add", w |-> w, t |-> now, power |-> p,
                           result |-> NoAverage]
            /\ UNCHANGED <<now, hassVars, schedVars, taskVars, env_changes>>

PWAverage ==
    LET w == pw_last.w
    IN  /\ SetMeasurements(PWSensor, w,
               Cleanup(Measurements(PWSensor, w), now, window_seconds(w)))
        /\ pw_last' = [op |-> "average", w |-> w, t |-> now, power |-> 0,
                       result |-> GetAverage(Measurements(PWSensor, w), now,
                                             window_seconds(w))]
        /\ UNCHANGED <<now, hassVars, schedVars, taskVars, env_changes, pw_inserted, pw_adds>>

PWClear ==
    LET w == pw_last.w
    IN  /\ Measurements(PWSensor, w) # <<>>
        /\ SetMeasurements(PWSensor, w, <<>>)
        /\ pw_inserted' = [pw_inserted EXCEPT ![w] = <<>>]
        /\ pw_last' = [op |-> "clear", w |-> w, t |-> now, power |-> 0,
                       result |-> NoAverage]
        /\ UNCHANGED <<now, hassVars, schedVars, taskVars, env_changes, pw_adds>>

NextPW == PWAdvance \/ PWAdd \/ PWAverage \/ PWClear

SpecPW == InitPW /\ [][NextPW]_vars

(***************************************************************************)
(* SpecCalc: one evaluation of the decision, by a reconciliation task of   *)
(* MaxChargingCurrentSensor and by the state writes of both sensors, for   *)
(* readings, window contents and control states drawn from bounded sets.   *)
(* The charger's switch is configured and has no state yet, so no command  *)
(* is made.                                                                *)
(***************************************************************************)
CalcReading(max_import, avg_import, current_l1, voltages, charger_l1) ==
    [k \in ReadingKeys |->
        CASE k = "max_import_power_entity" -> max_import
          [] k = "avg_import_power_15min_entity" -> avg_import
          [] k = "current_l1_entity" -> current_l1
          [] k = "current_l3_entity" -> ABSENT
          [] k = "voltage_l1_entity" -> voltages[1]
          [] k = "voltage_l2_entity" -> voltages[2]
          [] k = "voltage_l3_entity" -> voltages[3]
          [] k = "charger_current_l1_entity" -> charger_l1
          [] OTHER -> Str(0)]

CalcReadings ==
    {CalcReading(max_import, avg_import, current_l1, voltages, charger_l1) :
        max_import \in {ABSENT, Str(0 - 100), Str(0), Str(5000), Str(30000)},
        avg_import \in {UNAVAILABLE, Str(4000), Str(5000), Str(6000)},
        current_l1 \in {Str(10), Str(30)},
        voltages \in {<<Str(230), Str(230), ABSENT>>, <<Str(0), Str(0), Str(0)>>,
                      <<Str(0 - 230), Str(230), Str(0)>>, <<Str(0 - 230), Str(0), Str(0)>>},
        charger_l1 \in {Str(0), Str(16)}}

\* The controls: the enable switch under its id with its state, the cap select under
\* its id with its state (the option, or what the host reports for an entity that is
\* unavailable or has no option).
CalcControls ==
    {c \in [toggle : ToggleEntityIds, on : BOOLEAN, cap : CapEntityIds,
            option : {Str(10), Str(16), Str(32)},
            cap_state : {Str(10), Str(16), Str(32), UNAVAILABLE, UNKNOWN}] :
        /\ c.toggle # ToggleLookupId => ~c.on
        /\ c.cap # CapLookupId => c.option = Str(16)
        /\ c.cap_state \in {c.option, UNAVAILABLE, UNKNOWN}
        /\ c.cap # CapLookupId => c.cap_state = c.option
        /\ c.cap_state # c.option => c.option = Str(16)}

CalcWindows == {<<>>, <<<<0 - 400, 0>>, <<3000, 10>>>>}

InitCalc ==
    /\ now = 10
    /\ inflight = {}
    /\ chain = NoChain
    /\ env_changes = 0
    /\ config = [FullConfig EXCEPT !.charger_current_select_entity = NoEntity]
    /\ select_options = {}
    /\ \E r \in CalcReadings, c \in CalcControls, w \in CalcWindows :
          /\ entity_id = [toggle |-> c.toggle, cap |-> c.cap]
          /\ is_on = c.on
          /\ current_option = c.option
          /\ states = Merge(ReadingStates(r),
                            [id \in {c.toggle, c.cap} |->
                                IF id = c.toggle THEN (IF c.on THEN ON ELSE OFF)
                                ELSE c.cap_state])
          /\ power_window_30s = [s \in Sensors |-> w]
          /\ power_window_15min = [s \in Sensors |-> w]
    /\ last_update = [s \in Sensors |-> now]
    /\ notified = [s \in Sensors |-> <<>>]
    /\ next_fire = [s \in Sensors |-> now + config.update_interval]
    /\ native_value = [s \in Sensors |->
           IF s = "ChargingAllowedSensor" THEN [written |-> FALSE, value |-> FALSE]
           ELSE [written |-> FALSE, value |-> 0]]
    /\ pending_update = [s \in Sensors |-> TRUE]
    /\ tasks = [i \in TaskIds |->
           IF i = 1 THEN NewTask("MaxChargingCurrentSensor") ELSE NoTask]
    /\ pw_inserted = [w \in Windows |-> <<>>]
    /\ pw_adds = 0
    /\ pw_last = NoCall("power_window_30s")

NextCalc ==
    \/ \E i \in TaskIds : TaskStart(i)
    \/ \E s \in Sensors : UpdateHaState(s)

SpecCalc == InitCalc /\ [][NextCalc]_vars

(***************************************************************************)
(* SpecRead: one evaluation, as in SpecCalc, for sources that are not      *)
(* configured, have no state, or report text of several kinds.             *)
(***************************************************************************)
\* Texts a source may report
DECIMAL_230 == <<"2", "3", "0", ".", "0">>
AUTO == <<"a", "u", "t", "o">>
TRAILING_LETTER == <<"1", "2", "a">>
EMPTY == <<>>

ReadMaxImports ==
    {Str(5000), Str(0), Str(0 - 100), DECIMAL_230, UNKNOWN, UNAVAILABLE, AUTO,
     TRAILING_LETTER, EMPTY, ABSENT}

ReadAvgImports == {Str(4000), Str(100), UNKNOWN, TRAILING_LETTER, ABSENT}

ReadVoltages == {DECIMAL_230, Str(0), UNAVAILABLE, AUTO, ABSENT}

\* config_entry.data.get(key) is None for the keys in unset
ReadConfig(unset) ==
    [k \in DOMAIN FullConfig |->
        IF k \in unset \/ k = "charger_current_select_entity" THEN NoEntity
        ELSE FullConfig[k]]

InitRead ==
    /\ now = 10
    /\ inflight = {}
    /\ chain = NoChain
    /\ env_changes = 0
    /\ \E unset \in SUBSET {"max_import_power_entity", "avg_import_power_15min_entity"} :
          config = ReadConfig(unset)
    /\ select_options = {}
    /\ entity_id = [toggle |-> ToggleLookupId, cap |-> CapLookupId]
    /\ is_on = TRUE
    /\ current_option = Str(16)
    /\ \E max_import \in ReadMaxImports, avg_import \in ReadAvgImports,
          voltage_l1 \in ReadVoltages :
          states = Merge(ReadingStates(CalcReading(max_import, avg_import, Str(10),
                                                   <<voltage_l1, Str(230), ABSENT>>,
                                                   Str(0))),
                         [id \in {ToggleLookupId, CapLookupId} |->
                             IF id = ToggleLookupId THEN ON ELSE Str(16)])
    /\ power_window_30s = [s \in Sensors |-> <<>>]
    /\ power_window_15min = [s \in Sensors |-> <<>>]
    /\ last_update = [s \in Sensors |-> now]
    /\ notified = [s \in Sensors |-> <<>>]
    /\ next_fire = [s \in Sensors |-> now + config.update_interval]
    /\ native_value = [s \in Sensors |->
           IF s = "ChargingAllowedSensor" THEN [written |-> FALSE, value |-> FALSE]
           ELSE [written |-> FALSE, value |-> 0]]
    /\ pending_update = [s \in Sensors |-> TRUE]
    /\ tasks = [i \in TaskIds |->
           IF i = 1 THEN NewTask("MaxChargingCurrentSensor") ELSE NoTask]
    /\ pw_inserted = [w \in Windows |-> <<>>]
    /\ pw_adds = 0
    /\ pw_last = NoCall("power_window_30s")

SpecRead == InitRead /\ [][NextCalc]_vars

(***************************************************************************)
(* Spec: the integration running.  Both sensors poll on their timers and   *)
(* reconcile the charger; the user operates the two controls and the       *)
(* update_charger service; the sources and the charger change.             *)
(***************************************************************************)
\* Readings: 5000 W budget with 4000 W average and little load (allowed, 6 A);
\* 10000 W budget (allowed, 11 A); average at the budget (not allowed); the voltage
\* meters reading 0 V (allowed, and the division by the voltage raises).
SysReadings ==
    {Scenario(5000, 4000, 10, 230, 0),
     Scenario(10000, 4000, 10, 230, 0),
     Scenario(5000, 5000, 10, 230, 0),
     Scenario(5000, 4000, 10, 0, 0)}

InitSys ==
    /\ now = 0
    /\ InitSensors
    /\ InitTasks
    /\ \E switch_id \in {NoEntity, "switch.charger"} :
          config = [FullConfig EXCEPT !.charger_switch_entity = switch_id]
    /\ \E toggle \in ToggleEntityIds :
          entity_id = [toggle |-> toggle,
                       cap |-> "select.charging_control_max_charging_current"]
    /\ is_on = TRUE
    /\ current_option = Str(16)
    /\ \E r \in {Scenario(10000, 4000, 10, 230, 0)}, charger \in {ON, OFF, ABSENT} :
          /\ charger = ABSENT => config.charger_switch_entity # NoEntity
          /\ states = Merge(ReadingStates(r),
                            [id \in {entity_id.toggle, entity_id.cap,
                                     "select.charger_current"}
                                    \cup (IF charger = ABSENT THEN {}
                                          ELSE {"switch.charger"}) |->
                                CASE id = entity_id.toggle -> ON
                                  [] id = entity_id.cap -> Str(16)
                                  [] id = "switch.charger" -> charger
                                  [] OTHER -> Str(16)])
    /\ select_options = ChargerLevels
    /\ next_fire = [s \in Sensors |-> config.update_interval]
    /\ pending_update = [s \in Sensors |-> TRUE]
    /\ pw_inserted = [w \in Windows |-> <<>>]
    /\ pw_adds = 0
    /\ pw_last = NoCall("power_window_30s")

Next ==
    \/ Advance
    \/ \E s \in Sensors : UpdatePowerMeasurements(s)
    \/ \E s \in Sensors : UpdateHaState(s)
    \/ \E i \in TaskIds : TaskStart(i)
    \/ \E i \in TaskIds : TaskAfterSwitch(i)
    \/ \E i \in TaskIds : TaskAfterSelect(i)
    \/ \E cmd \in inflight : Deliver(cmd)
    \/ AsyncTurnOn
    \/ AsyncTurnOff
    \/ \E option \in {Str(10)} : AsyncSelectOption(option)
    \/ \E r \in SysReadings : ReadingsChange(r)
    \/ \E value \in {ON, OFF} : ChargerChange(value)
    \/ UpdateChargerFromCalculations

Spec == InitSys /\ [][Next]_vars

(***************************************************************************)
(* SpecCurrent: the evaluations of the two sensors' control tasks and the   *)
(* two state writes at one instant, for readings that give headroom,       *)
(* several voltages, window contents and caps, an enable switch that the   *)
(* sensors read or do not read, and a source of the 15-minute average that *)
(* changes in between.                                                     *)
(***************************************************************************)
\* Voltages of the three phases: with mean 230, one source missing, with a mean that
\* is not a whole number
CurrentVoltages ==
    {<<Str(200), Str(200), Str(290)>>, <<Str(230), Str(230), ABSENT>>,
     <<Str(230), Str(231), Str(230)>>}

\* The 30 s window: empty, one sample of 3000 W, two samples with mean 1300.5 W
CurrentWindows == {<<>>, <<<<3000, 10>>>>, <<<<0 - 400, 0>>, <<3001, 10>>>>}

CurrentReadings ==
    {CalcReading(max_import, avg_import, Str(10), voltages, charger_l1) :
        max_import \in {Str(5000), Str(20000), Str(700)},
        avg_import \in {Str(4000), Str(6000)},
        voltages \in CurrentVoltages,
        charger_l1 \in {Str(0), Str(5)}}

InitCurrent ==
    /\ now = 10
    /\ inflight = {}
    /\ chain = NoChain
    /\ env_changes = 0
    /\ config = [FullConfig EXCEPT !.charger_current_select_entity = NoEntity]
    /\ select_options = {}
    /\ \E toggle \in ToggleEntityIds, on \in BOOLEAN :
          /\ entity_id = [toggle |-> toggle, cap |-> CapLookupId]
          /\ is_on = on
    /\ \E r \in CurrentReadings, cap \in {10, 16, 32} :
          /\ current_option = Str(cap)
          /\ states = Merge(ReadingStates(r),
                            [id \in {entity_id.toggle, CapLookupId} |->
                                IF id = CapLookupId THEN Str(cap)
                                ELSE IF is_on THEN ON ELSE OFF])
    /\ \E w \in CurrentWindows :
          /\ power_window_30s = [s \in Sensors |-> w]
          /\ power_window_15min = [s \in Sensors |-> w]
    /\ last_update = [s \in Sensors |-> now]
    /\ notified = [s \in Sensors |-> <<>>]
    /\ next_fire = [s \in Sensors |-> now + config.update_interval]
    /\ native_value = [s \in Sensors |->
           IF s = "ChargingAllowedSensor" THEN [written |-> FALSE, value |-> FALSE]
           ELSE [written |-> FALSE, value |-> 0]]
    /\ pending_update = [s \in Sensors |-> TRUE]
    /\ tasks = [i \in TaskIds |->
           IF i = 1 THEN NewTask("MaxChargingCurrentSensor")
           ELSE NewTask("ChargingAllowedSensor")]
    /\ pw_inserted = [w \in Windows |-> <<>>]
    /\ pw_adds = 0
    /\ pw_last = NoCall("power_window_30s")

\* The source of avg_import_power_15min reports another value; the sensors are told
\* (async_track_state_change_event).
AvgImportChange(v) ==
    /\ states' = [states EXCEPT ![config.avg_import_power_15min_entity] = v]
    /\ states' # states
    /\ HandleStateChange
    /\ UNCHANGED <<now, config, entity_id, select_options, is_on, current_option,
                   native_value, next_fire, env_changes, taskVars, windowVars, pwHistory>>

NextCurrent ==
    \/ \E i \in TaskIds : TaskStart(i)
    \/ \E s \in Sensors : UpdateHaState(s)
    \/ \E v \in {Str(4000), Str(6000)} : AvgImportChange(v)

SpecCurrent == InitCurrent /\ [][NextCurrent]_vars

(***************************************************************************)
(* SpecBudget: the integration with a charger switch, a budget and a       *)
(* 15-minute average that do not change, and a current of phase 1 that     *)
(* changes at any moment, so that the two sensors' windows come to hold    *)
(* different samples.                                                      *)
(***************************************************************************)
\* Budget 5000 W with an average below and above it; no budget
BudgetReadings ==
    {Scenario(5000, 4000, 10, 230, 0), Scenario(5000, 6000, 10, 230, 0),
     Scenario(0, 4000, 10, 230, 0)}

InitBudget ==
    /\ now = 0
    /\ InitSensors
    /\ InitTasks
    /\ config = [FullConfig EXCEPT !.charger_current_select_entity = NoEntity]
    /\ entity_id = [toggle |-> ToggleLookupId, cap |-> CapLookupId]
    /\ is_on = TRUE
    /\ current_option = Str(16)
    /\ \E r \in BudgetReadings, charger \in {ON, OFF} :
          states = Merge(ReadingStates(r),
                         [id \in {ToggleLookupId, CapLookupId, "switch.charger"} |->
                             CASE id = ToggleLookupId -> ON
                               [] id = CapLookupId -> Str(16)
                               [] OTHER -> charger])
    /\ select_options = {}
    /\ next_fire = [s \in Sensors |-> config.update_interval]
    /\ pending_update = [s \in Sensors |-> TRUE]
    /\ pw_inserted = [w \in Windows |-> <<>>]
    /\ pw_adds = 0
    /\ pw_last = NoCall("power_window_30s")

\* The source of current_l1 reports another value; the sensors are told
\* (async_track_state_change_event).
CurrentChange(v) ==
    /\ states' = [states EXCEPT ![config.current_l1_entity] = v]
    /\ states' # states
    /\ HandleStateChange
    /\ UNCHANGED <<now, config, entity_id, select_options, is_on, current_option,
                   native_value, next_fire, env_changes, taskVars, windowVars, pwHistory>>

NextBudget ==
    \/ Advance
    \/ \E s \in Sensors : UpdatePowerMeasurements(s)
    \/ \E s \in Sensors : UpdateHaState(s)
    \/ \E i \in TaskIds : TaskStart(i)
    \/ \E i \in TaskIds : TaskAfterSwitch(i)
    \/ \E cmd \in inflight : Deliver(cmd)
    \/ \E v \in {Str(10), Str(30)} : CurrentChange(v)

SpecBudget == InitBudget /\ [][NextBudget]_vars

(***************************************************************************)
(* SpecFallback: the evaluations of SpecCurrent, with a current of phase 1 *)
(* that changes in between and the other readings staying the same.        *)
(***************************************************************************)
NextFallback ==
    \/ \E i \in TaskIds : TaskStart(i)
    \/ \E s \in Sensors : UpdateHaState(s)
    \/ \E v \in {Str(10), Str(30)} : CurrentChange(v)

SpecFallback == InitCurrent /\ [][NextFallback]_vars

(***************************************************************************)
(* SpecPower: the first timer callbacks and evaluations for currents,      *)
(* voltages and charger currents of either sign, sources that are not      *)
(* configured, have no state or report no number; the charger's switch has *)
(* no state, so that no command is made.                                   *)
(***************************************************************************)
\* The texts of the three phases' currents, voltages and charger currents
PowerCurrents ==
    {<<Str(10), Str(0), Str(0)>>, <<Str(0 - 100), Str(16), ABSENT>>,
     <<UNAVAILABLE, Str(10), Str(0 - 100)>>, <<Str(0 - 100), Str(0 - 100), AUTO>>}

PowerVoltages ==
    {<<Str(230), Str(230), Str(230)>>, <<DECIMAL_230, ABSENT, UNKNOWN>>,
     <<Str(100), Str(230), ABSENT>>}

PowerChargerCurrents ==
    {<<Str(0), Str(0), Str(0)>>, <<Str(16), Str(16), Str(16)>>,
     <<Str(10), UNAVAILABLE, ABSENT>>, <<Str(0 - 100), Str(0), Str(0)>>}

PowerReading(currents, voltages, charger_currents) ==
    [k \in ReadingKeys |->
        CASE k = "max_import_power_entity" -> Str(5000)
          [] k = "avg_import_power_15min_entity" -> Str(4000)
          [] k = "current_l1_entity" -> currents[1]
          [] k = "current_l2_entity" -> currents[2]
          [] k = "current_l3_entity" -> currents[3]
          [] k = "voltage_l1_entity" -> voltages[1]
          [] k = "voltage_l2_entity" -> voltages[2]
          [] k = "voltage_l3_entity" -> voltages[3]
          [] k = "charger_current_l1_entity" -> charger_currents[1]
          [] k = "charger_current_l2_entity" -> charger_currents[2]
          [] OTHER -> charger_currents[3]]

InitPower ==
    /\ now = 0
    /\ InitSensors
    /\ InitTasks
    /\ \E unset \in SUBSET {"current_l3_entity", "charger_current_l2_entity"} :
          config = [k \in DOMAIN FullConfig |->
                       IF k \in unset \/ k = "charger_current_select_entity" THEN NoEntity
                       ELSE FullConfig[k]]
    /\ entity_id = [toggle |-> ToggleLookupId, cap |-> CapLookupId]
    /\ is_on = TRUE
    /\ current_option = Str(16)
    /\ \E currents \in PowerCurrents, voltages \in PowerVoltages,
          charger_currents \in PowerChargerCurrents :
          states = Merge(ReadingStates(PowerReading(currents, voltages, charger_currents)),
                         [id \in {ToggleLookupId, CapLookupId} |->
                             IF id = ToggleLookupId THEN ON ELSE Str(16)])
    /\ select_options = {}
    /\ next_fire = [s \in Sensors |-> config.update_interval]
    /\ pending_update = [s \in Sensors |-> TRUE]
    /\ pw_inserted = [w \in Windows |-> <<>>]
    /\ pw_adds = 0
    /\ pw_last = NoCall("power_window_30s")

NextPower ==
    \/ Advance
    \/ \E s \in Sensors : UpdatePowerMeasurements(s)
    \/ \E s \in Sensors : UpdateHaState(s)
    \/ \E i \in TaskIds : TaskStart(i)

SpecPower == InitPower /\ [][NextPower]_vars

(***************************************************************************)
(* SpecZero: the integration with sources, enable switch and cap that do   *)
(* not change, for readings with and without headroom, and a charger whose *)
(* selector offers positive levels only, or also a level 0 or below.       *)
(***************************************************************************)
\* Budget 5000 W and average 4000 W (allowed) with a total power of 6900 W (no
\* headroom) and of 2300 W (headroom for 6 A); no headroom and not allowed
ZeroReadings ==
    {Scenario(5000, 4000, 30, 230, 0), Scenario(5000, 4000, 10, 230, 0),
     Scenario(5000, 6000, 30, 230, 0)}

\* The options attribute of the charger's selector
ZeroOptionLists ==
    {ChargerLevels, ChargerLevels \cup {Str(0)}, {Str(0 - 1), Str(16)},
     {Str(6), Str(16), OFF}}

InitZero ==
    /\ now = 0
    /\ InitSensors
    /\ InitTasks
    /\ config = FullConfig
    /\ entity_id = [toggle |-> ToggleLookupId, cap |-> CapLookupId]
    /\ is_on \in BOOLEAN
    /\ current_option = Str(16)
    /\ \E r \in ZeroReadings, charger \in {ON, OFF, ABSENT} :
          states = Merge(ReadingStates(r),
                         [id \in {ToggleLookupId, CapLookupId, "select.charger_current"}
                                 \cup (IF charger = ABSENT THEN {} ELSE {"switch.charger"}) |->
                             CASE id = ToggleLookupId -> IF is_on THEN ON ELSE OFF
                               [] id = "switch.charger" -> charger
                               [] OTHER -> Str(16)])
    /\ select_options \in ZeroOptionLists
    /\ next_fire = [s \in Sensors |-> config.update_interval]
    /\ pending_update = [s \in Sensors |-> TRUE]
    /\ pw_inserted = [w \in Windows |-> <<>>]
    /\ pw_adds = 0
    /\ pw_last = NoCall("power_window_30s")

NextZero ==
    \/ Advance
    \/ \E s \in Sensors : UpdatePowerMeasurements(s)
    \/ \E s \in Sensors : UpdateHaState(s)
    \/ \E i \in TaskIds : TaskStart(i)
    \/ \E i \in TaskIds : TaskAfterSwitch(i)
    \/ \E i \in TaskIds : TaskAfterSelect(i)
    \/ \E cmd \in inflight : Deliver(cmd)

SpecZero == InitZero /\ [][NextZero]_vars

(***************************************************************************)
(* SpecFrame: the integration as in Spec, with a charger's switch, a       *)
(* charger's selector, both or neither configured.                         *)
(***************************************************************************)
InitFrame ==
    /\ now = 0
    /\ InitSensors
    /\ InitTasks
    /\ \E switch_id \in {NoEntity, "switch.charger"},
          select_id \in {NoEntity, "select.charger_current"} :
          config = [FullConfig EXCEPT !.charger_switch_entity = switch_id,
                                      !.charger_current_select_entity = select_id]
    /\ entity_id = [toggle |-> ToggleLookupId, cap |-> CapLookupId]
    /\ is_on = TRUE
    /\ current_option = Str(16)
    /\ states = Merge(ReadingStates(Scenario(10000, 4000, 10, 230, 0)),
                      [id \in {ToggleLookupId, CapLookupId, "switch.charger",
                               "select.charger_current"} |->
                          CASE id = ToggleLookupId -> ON
                            [] id = "switch.charger" -> OFF
                            [] OTHER -> Str(16)])
    /\ select_options = ChargerLevels
    /\ next_fire = [s \in Sensors |-> config.update_interval]
    /\ pending_update = [s \in Sensors |-> TRUE]
    /\ pw_inserted = [w \in Windows |-> <<>>]
    /\ pw_adds = 0
    /\ pw_last = NoCall("power_window_30s")

SpecFrame == InitFrame /\ [][Next]_vars

(***************************************************************************)
(* SpecPopulation: the two sensors without a charger to control and their  *)
(* timers, for update intervals from the smallest to the largest that the  *)
(* configuration form accepts (config_flow.py 92-96), over                 *)
(* MaxPopulationTime seconds; the current of phase 1 changes once.         *)
(***************************************************************************)
MaxPopulationTime == 120

UpdateIntervals == {5, 10, 30, 31, 60}

PopulationReadings == {Scenario(10000, 4000, 10, 230, 0), Scenario(10000, 4000, 30, 230, 0)}

InitPopulation ==
    /\ now = 0
    /\ InitSensors
    /\ InitTasks
    /\ \E update_interval \in UpdateIntervals :
          config = [FullConfig EXCEPT !.update_interval = update_interval,
                                      !.charger_switch_entity = NoEntity,
                                      !.charger_current_select_entity = NoEntity]
    /\ entity_id = [toggle |-> ToggleLookupId, cap |-> CapLookupId]
    /\ is_on = TRUE
    /\ current_option = Str(16)
    /\ states = Merge(ReadingStates(Scenario(10000, 4000, 10, 230, 0)),
                      [id \in {ToggleLookupId, CapLookupId} |->
                          IF id = ToggleLookupId THEN ON ELSE Str(16)])
    /\ select_options = {}
    /\ next_fire = [s \in Sensors |-> config.update_interval]
    /\ pending_update = [s \in Sensors |-> TRUE]
    /\ pw_inserted = [w \in Windows |-> <<>>]
    /\ pw_adds = 0
    /\ pw_last = NoCall("power_window_30s")

\* Time passes, as in Advance, until the timers fire next or, with an interval above
\* 31 s, until 31 s after they fired and then until they fire.
PopulationAdvance ==
    /\ \A s \in Sensors : now < next_fire[s] /\ ~pending_update[s]
    /\ \A i \in TaskIds : tasks[i].pc # "created"
    /\ \E d \in {config.update_interval, 31, config.update_interval - 31} :
          /\ d > 0
          /\ \A s \in Sensors : now + d <= next_fire[s]
          /\ now + d <= MaxPopulationTime
          /\ now' = now + d
    /\ UNCHANGED <<hassVars, schedVars, env_changes, taskVars, windowVars, pwHistory>>

NextPopulation ==
    \/ PopulationAdvance
    \/ \E s \in Sensors : UpdatePowerMeasurements(s)
    \/ \E s \in Sensors : UpdateHaState(s)
    \/ \E r \in PopulationReadings : ReadingsChange(r)

SpecPopulation == InitPopulation /\ [][NextPopulation]_vars

(***************************************************************************)
(* SpecNesting: the sensors without a charger for more than 15 minutes:    *)
(* the timers fire every 20 s or every 60 s, the sources change once.      *)
(***************************************************************************)
MaxNestingTime == 1080

NestingIntervals == {20, 60}

NestingReadings == {Scenario(10000, 4000, 30, 230, 0)}

InitNesting ==
    /\ now = 0
    /\ InitSensors
    /\ InitTasks
    /\ \E update_interval \in NestingIntervals :
          config = [FullConfig EXCEPT !.update_interval = update_interval,
                                      !.charger_switch_entity = NoEntity,
                                      !.charger_current_select_entity = NoEntity]
    /\ entity_id = [toggle |-> ToggleLookupId, cap |-> CapLookupId]
    /\ is_on = TRUE
    /\ current_option = Str(16)
    /\ states = Merge(ReadingStates(Scenario(10000, 4000, 10, 230, 0)),
                      [id \in {ToggleLookupId, CapLookupId} |->
                          IF id = ToggleLookupId THEN ON ELSE Str(16)])
    /\ select_options = {}
    /\ next_fire = [s \in Sensors |-> config.update_interval]
    /\ pending_update = [s \in Sensors |-> TRUE]
    /\ pw_inserted = [w \in Windows |-> <<>>]
    /\ pw_adds = 0
    /\ pw_last = NoCall("power_window_30s")

\* Time passes, as in Advance, until the timers fire next.
NestingAdvance ==
    /\ \A s \in Sensors : now < next_fire[s] /\ ~pending_update[s]
    /\ \A i \in TaskIds : tasks[i].pc # "created"
    /\ \E d \in {config.update_interval} : now + d <= MaxNestingTime /\ now' = now + d
    /\ UNCHANGED <<hassVars, schedVars, env_changes, taskVars, windowVars, pwHistory>>

NextNesting ==
    \/ NestingAdvance
    \/ \E s \in Sensors : UpdatePowerMeasurements(s)
    \/ \E s \in Sensors : UpdateHaState(s)
    \/ \E r \in NestingReadings : ReadingsChange(r)

SpecNesting == InitNesting /\ [][NextNesting]_vars

(***************************************************************************)
(* SpecService: the integration with its charger switched on, sources that *)
(* change at any moment, and the update_charger service called with the    *)
(* entry's id, without an id or with an id that is not an entry's.         *)
(***************************************************************************)
\* call.data.get("entry_id"): none, the entry's, another
ServiceEntryIds == {NoEntity, EntryId, "entry2"}

ServiceReadings == {Scenario(10000, 4000, 10, 230, 0), Scenario(10000, 4000, 30, 230, 0)}

InitService ==
    /\ now = 0
    /\ InitSensors
    /\ InitTasks
    /\ config = FullConfig
    /\ entity_id = [toggle |-> ToggleLookupId, cap |-> CapLookupId]
    /\ is_on = TRUE
    /\ current_option = Str(16)
    /\ states = Merge(ReadingStates(Scenario(10000, 4000, 10, 230, 0)),
                      [id \in {ToggleLookupId, CapLookupId, "switch.charger",
                               "select.charger_current"} |->
                          CASE id = ToggleLookupId -> ON
                            [] id = "switch.charger" -> ON
                            [] OTHER -> Str(16)])
    /\ select_options = ChargerLevels
    /\ next_fire = [s \in Sensors |-> config.update_interval]
    /\ pending_update = [s \in Sensors |-> TRUE]
    /\ pw_inserted = [w \in Windows |-> <<>>]
    /\ pw_adds = 0
    /\ pw_last = NoCall("power_window_30s")

\* handle_update_charger(call) (__init__.py 26-44) and update_charger_from_calculations
\* (sensor.py 569-582): without an id the first entry is taken; for an id that is not in
\* hass.data[DOMAIN] the handler returns; else a temporary sensor reconciles.
HandleUpdateCharger(entry_id) ==
    /\ env_changes < MaxEnvChanges
    /\ env_changes' = env_changes + 1
    /\ \E id \in {IF entry_id = NoEntity THEN EntryId ELSE entry_id} :
          IF id = EntryId
          THEN \E i \in TaskIds : Free(i) /\ tasks' = CreateTask(i, "temp")
          ELSE tasks' = tasks
    /\ UNCHANGED <<now, hassVars, schedVars, inflight, chain, windowVars, pwHistory>>

NextService ==
    \/ Advance
    \/ \E s \in Sensors : UpdatePowerMeasurements(s)
    \/ \E s \in Sensors : UpdateHaState(s)
    \/ \E i \in TaskIds : TaskStart(i)
    \/ \E i \in TaskIds : TaskAfterSelect(i)
    \/ \E cmd \in inflight : Deliver(cmd)
    \/ \E r \in ServiceReadings : SourceChange(r)
    \/ \E entry_id \in ServiceEntryIds : HandleUpdateCharger(entry_id)

SpecService == InitService /\ [][NextService]_vars

(***************************************************************************)
(* SpecCap: MaxChargingCurrentSelect from its construction: it is added to *)
(* Home Assistant, with or without a stored last state, and its            *)
(* select_option service is called with any string, MaxCapCalls times.     *)
(***************************************************************************)
MaxCapCalls == 3

\* Strings that are not options, some of them close to one
NotCapOptions ==
    {Str(5), Str(33), Str(0), <<"1", "6", ".", "0">>, <<" ", "1", "6">>, <<"0", "6">>,
     <<>>, UNKNOWN, UNAVAILABLE}

\* What async_get_last_state() returns: None (ABSENT) or a state with any string
LastStates == {ABSENT} \cup CapOptions \cup NotCapOptions

\* After MaxChargingCurrentSelect.__init__ (select.py 39-47); the entity has no state
\* in the state machine yet.
InitCap ==
    /\ now = 0
    /\ InitSensors
    /\ InitTasks
    /\ config = [FullConfig EXCEPT !.charger_switch_entity = NoEntity,
                                   !.charger_current_select_entity = NoEntity]
    /\ \E cap \in CapEntityIds :
          entity_id = [toggle |-> "switch.charging_control_allow_charging", cap |-> cap]
    /\ is_on = TRUE
    /\ current_option = Str(16)
    /\ states = Merge(ReadingStates(Scenario(5000, 4000, 10, 230, 0)),
                      [id \in {entity_id.toggle} |-> ON])
    /\ select_options = {}
    /\ next_fire = [s \in Sensors |-> config.update_interval]
    /\ pending_update = [s \in Sensors |-> TRUE]
    /\ pw_inserted = [w \in Windows |-> <<>>]
    /\ pw_adds = 0
    /\ pw_last = NoCall("power_window_30s")

\* A faulty variant of SelectAddedToHass, to compare with: any stored state is taken.
SelectAddedToHassAsStored(last_state) ==
    /\ Missing(entity_id.cap)
    /\ current_option' = IF last_state # ABSENT THEN last_state ELSE current_option
    /\ states' = SetState(entity_id.cap, current_option')
    /\ UNCHANGED <<now, config, entity_id, select_options, is_on, schedVars, env_changes,
                   taskVars, windowVars, pwHistory>>

\* MaxChargingCurrentSelect.async_added_to_hass (select.py 69-79), after which the
\* entity platform writes the entity's state
SelectAddedToHass(last_state) ==
    /\ Missing(entity_id.cap)
    /\ current_option' =
          IF last_state # ABSENT
          THEN IF last_state \in CapOptions THEN last_state ELSE Str(16)
          ELSE current_option
    /\ states' = SetState(entity_id.cap, current_option')
    /\ UNCHANGED <<now, config, entity_id, select_options, is_on, schedVars, env_changes,
                   taskVars, windowVars, pwHistory>>

\* MaxChargingCurrentSelect.async_select_option (select.py 81-88) as in
\* AsyncSelectOption, for the entity that has been added, MaxCapCalls times
SelectOptionCall(option) ==
    /\ ~Missing(entity_id.cap)
    /\ env_changes < MaxCapCalls
    /\ env_changes' = env_changes + 1
    /\ IF option \in CapOptions
       THEN /\ current_option' = option
            /\ states' = SetState(entity_id.cap, option)
       ELSE UNCHANGED <<current_option, states>>
    /\ UNCHANGED <<now, config, entity_id, select_options, is_on, schedVars, taskVars,
                   windowVars, pwHistory>>

NextCap ==
    \/ \E last_state \in LastStates : SelectAddedToHass(last_state)
    \/ \E option \in CapOptions \cup NotCapOptions : SelectOptionCall(option)

SpecCap == InitCap /\ [][NextCap]_vars

(***************************************************************************)
(* SpecDebounce: the two sensors without a charger to control, their       *)
(* timers, and sources that change at any moment of a clock that moves by  *)
(* half the update interval.                                               *)
(***************************************************************************)
MaxDebounceTime == 30

DebounceReadings == {Scenario(5000, 4000, 10, 230, 0), Scenario(5000, 5000, 10, 230, 0)}

InitDebounce ==
    /\ now = 0
    /\ InitSensors
    /\ InitTasks
    /\ config = [FullConfig EXCEPT !.charger_switch_entity = NoEntity,
                                   !.charger_current_select_entity = NoEntity]
    /\ entity_id = [toggle |-> ToggleLookupId, cap |-> CapLookupId]
    /\ is_on = TRUE
    /\ current_option = Str(16)
    /\ states = Merge(ReadingStates(Scenario(5000, 4000, 10, 230, 0)),
                      [id \in {ToggleLookupId, CapLookupId} |->
                          IF id = ToggleLookupId THEN ON ELSE Str(16)])
    /\ select_options = {}
    /\ next_fire = [s \in Sensors |-> config.update_interval]
    /\ pending_update = [s \in Sensors |-> TRUE]
    /\ pw_inserted = [w \in Windows |-> <<>>]
    /\ pw_adds = 0
    /\ pw_last = NoCall("power_window_30s")

\* Time passes, as in Advance, by half an update interval.
DebounceAdvance ==
    /\ \A s \in Sensors : now < next_fire[s] /\ ~pending_update[s]
    /\ \A i \in TaskIds : tasks[i].pc # "created"
    /\ \E d \in {config.update_interval \div 2} :
          now + d <= MaxDebounceTime /\ now' = now + d
    /\ UNCHANGED <<hassVars, schedVars, env_changes, taskVars, windowVars, pwHistory>>

NextDebounce ==
    \/ DebounceAdvance
    \/ \E s \in Sensors : UpdatePowerMeasurements(s)
    \/ \E s \in Sensors : UpdateHaState(s)
    \/ \E r \in DebounceReadings : SourceChange(r)

SpecDebounce == InitDebounce /\ [][NextDebounce]_vars

(***************************************************************************)
(* SpecLive: the integration running for ever, with sources, enable switch *)
(* and cap that do not change.  The program uses differences of times      *)
(* only, so the origin of time is moved along with the clock: now stays 0  *)
(* and every stored time decreases when time passes.  The update interval  *)
(* is the largest the configuration form accepts, 60 s.  A service call    *)
(* may raise, MaxEnvChanges times; it returns, and the charger handles an  *)
(* accepted command, before the next interval ends.                        *)
(***************************************************************************)
\* Readings: budget 10000 W and average 4000 W (allowed, 11 A, level 10); average at
\* the budget of 5000 W (not allowed).
LiveReadings == {Scenario(10000, 4000, 10, 230, 0), Scenario(5000, 5000, 10, 230, 0)}

\* The enable switch has been restored on or off (switch.py 62-69).
InitLive ==
    /\ now = 0
    /\ InitSensors
    /\ InitTasks
    /\ config = [FullConfig EXCEPT !.update_interval = 60]
    /\ \E toggle \in ToggleEntityIds :
          entity_id = [toggle |-> toggle,
                       cap |-> "select.charging_control_max_charging_current"]
    /\ is_on \in BOOLEAN
    /\ current_option = Str(16)
    /\ \E r \in LiveReadings, charger \in {ON, OFF} :
          states = Merge(ReadingStates(r),
                         [id \in {entity_id.toggle, entity_id.cap, "switch.charger",
                                  "select.charger_current"} |->
                             CASE id = entity_id.toggle -> IF is_on THEN ON ELSE OFF
                               [] id = entity_id.cap -> Str(16)
                               [] id = "switch.charger" -> charger
                               [] OTHER -> Str(16)])
    /\ select_options = ChargerLevels
    /\ next_fire = [s \in Sensors |-> config.update_interval]
    /\ pending_update = [s \in Sensors |-> TRUE]
    /\ pw_inserted = [w \in Windows |-> <<>>]
    /\ pw_adds = 0
    /\ pw_last = NoCall("power_window_30s")

\* The measurements with every timestamp d seconds further in the past
Aged(measurements, d) ==
    [k \in 1..Len(measurements) |-> <<measurements[k][1], measurements[k][2] - d>>]

\* Time passes, as in Advance, by one update interval; the service calls made have
\* returned and the charger has handled the commands (they take less than the interval).
LiveAdvance ==
    /\ \A s \in Sensors : now < next_fire[s] /\ ~pending_update[s]
    /\ \A i \in TaskIds : ~Active(i)
    /\ inflight = {}
    /\ \E d \in {config.update_interval} :
          /\ next_fire' = [s \in Sensors |-> next_fire[s] - d]
          /\ last_update' = [s \in Sensors |->
                 IF last_update[s] = NoTime THEN NoTime ELSE last_update[s] - d]
          /\ power_window_30s' = [s \in Sensors |-> Aged(power_window_30s[s], d)]
          /\ power_window_15min' = [s \in Sensors |-> Aged(power_window_15min[s], d)]
    /\ UNCHANGED <<now, hassVars, native_value, pending_update, notified, env_changes,
                   taskVars, pwHistory>>

\* The commands the reconciler can make to the charger
LiveCommands ==
    {Command("switch", service, "switch.charger", <<>>) : service \in {"turn_on", "turn_off"}}
    \cup {Command("select", "select_option", "select.charger_current", option) :
             option \in ChargerLevels}

NextLive ==
    \/ LiveAdvance
    \/ \E s \in Sensors : UpdatePowerMeasurements(s)
    \/ \E s \in Sensors : UpdateHaState(s)
    \/ \E i \in TaskIds : TaskStart(i)
    \/ \E i \in TaskIds : TaskAfterSwitch(i)
    \/ \E i \in TaskIds : TaskAfterSelect(i)
    \/ \E cmd \in inflight : Deliver(cmd)

\* The timers keep firing and the event loop runs what is ready; a service call
\* returns and the charger handles an accepted command, in the end.
LiveFairness ==
    /\ WF_vars(LiveAdvance)
    /\ \A s \in Sensors : WF_vars(UpdatePowerMeasurements(s)) /\ WF_vars(UpdateHaState(s))
    /\ \A i \in TaskIds :
          WF_vars(TaskStart(i)) /\ WF_vars(TaskAfterSwitch(i)) /\ WF_vars(TaskAfterSelect(i))
    /\ \A cmd \in LiveCommands : WF_vars(Deliver(cmd))

SpecLive == InitLive /\ [][NextLive]_vars /\ LiveFairness

(***************************************************************************)
(* SpecSelect: _control_charger_current(target_current) called on its own, *)
(* for any integer target and several option lists; the charger handles    *)
(* the commands.                                                           *)
(***************************************************************************)
OptionLists ==
    {ChargerLevels,
     {Str(8), <<"0", "1", "6">>, <<" ", "1", "6">>, <<"a", "u", "t", "o">>},
     {<<"a", "u", "t", "o">>, <<"e", "c", "o">>},
     {Str(0 - 1), Str(0), Str(40)},
     {}}

InitSelect ==
    /\ now = 0
    /\ InitSensors
    /\ InitTasks
    /\ \E id \in {"select.charger_current", "input_select.charger_current"} :
          config = [FullConfig EXCEPT !.charger_current_select_entity = id]
    /\ entity_id = [toggle |-> ToggleLookupId, cap |-> CapLookupId]
    /\ is_on = TRUE
    /\ current_option = Str(32)
    /\ \E level \in {Str(6), Str(16), UNAVAILABLE, ABSENT} :
          states = Merge([id \in {ToggleLookupId, CapLookupId} |->
                             IF id = ToggleLookupId THEN ON ELSE Str(32)],
                         IF level = ABSENT THEN <<>>
                         ELSE [id \in {config.charger_current_select_entity} |-> level])
    /\ select_options \in OptionLists
    /\ next_fire = [s \in Sensors |-> config.update_interval]
    /\ pending_update = [s \in Sensors |-> FALSE]
    /\ pw_inserted = [w \in Windows |-> <<>>]
    /\ pw_adds = 0
    /\ pw_last = NoCall("power_window_30s")

\* temp._control_charger_current(target_current), as task 1
ControlChargerCurrent(target_current) ==
    /\ ~Active(1)
    /\ inflight = {}
    /\ CurrentPhase(1, [NewTask("temp") EXCEPT !.charging_enabled = TRUE,
                                              !.charging_allowed = TRUE,
                                              !.max_current = target_current],
                    NoChain)
    /\ UNCHANGED <<now, hassVars, schedVars, windowVars, pwHistory>>

NextSelect ==
    \/ \E target_current \in (0 - 1)..MaxTarget : ControlChargerCurrent(target_current)
    \/ TaskAfterSelect(1)
    \/ \E cmd \in inflight : Deliver(cmd)

SpecSelect == InitSelect /\ [][NextSelect]_vars

(***************************************************************************)
(* Claims about PowerWindow.                                               *)
(***************************************************************************)
\* The samples of the history with timestamp >= t - seconds (Recent) and with
\* timestamp > t - seconds (StrictlyRecent).
Recent(w, t) ==
    SelectSeq(pw_inserted[w], LAMBDA m : m[2] >= t - window_seconds(w))

StrictlyRecent(w, t) ==
    SelectSeq(pw_inserted[w], LAMBDA m : m[2] > t - window_seconds(w))

IsMeanOf(result, samples) ==
    IF samples = <<>> THEN result.none
    ELSE /\ ~result.none
         /\ result.num * Len(samples) = SumPower(samples) * result.den

IsSuffix(s, t) ==
    Len(s) <= Len(t) /\ s = SubSeq(t, Len(t) - Len(s) + 1, Len(t))

\* C8 as stated: average(now) is the mean of exactly the inserted samples with
\* t > now - window, a sample with t = now - window being excluded, and None when
\* there is no such sample.
C8_AverageStrictWindow ==
    pw_last.op = "average" => IsMeanOf(pw_last.result, StrictlyRecent(pw_last.w, pw_last.t))

\* C8 amended: average(now) is the mean of exactly the inserted samples with
\* t >= now - window (a sample with t = now - window exactly is included), None when
\* there is no such sample, also after clear(); one remaining sample is its own mean.
C8_AverageWindow ==
    pw_last.op = "average" =>
        /\ IsMeanOf(pw_last.result, Recent(pw_last.w, pw_last.t))
        /\ Len(Recent(pw_last.w, pw_last.t)) = 1 =>
               pw_last.result.num = Recent(pw_last.w, pw_last.t)[1][1] * pw_last.result.den

\* C8 witness: an average over two samples of different power, one of them exactly
\* window seconds old, taken after an older sample was purged.
C8_Witness ==
    /\ pw_last.op = "average"
    /\ ~pw_last.result.none
    /\ Len(Recent(pw_last.w, pw_last.t)) = 2
    /\ Len(pw_inserted[pw_last.w]) = 3
    /\ Recent(pw_last.w, pw_last.t)[1][2] = pw_last.t - window_seconds(pw_last.w)
    /\ Recent(pw_last.w, pw_last.t)[1][1] # Recent(pw_last.w, pw_last.t)[2][1]

\* C9: right after add(power, t) and after average(now) every retained sample has
\* timestamp >= (t or now) - window_seconds, the retained samples are the inserted
\* ones in insertion order less a purged prefix, and add retains the sample it added.
C9_Retention ==
    pw_last.op \in {"add", "average"} =>
        LET ms == Measurements(PWSensor, pw_last.w)
        IN  /\ \A i \in 1..Len(ms) : ms[i][2] >= pw_last.t - window_seconds(pw_last.w)
            /\ IsSuffix(ms, pw_inserted[pw_last.w])
            /\ pw_last.op = "add" =>
                   ms # <<>> /\ ms[Len(ms)] = <<pw_last.power, pw_last.t>>

\* C9 witness: an add that purged a prefix and kept more than the new sample.
C9_Witness ==
    /\ pw_last.op = "add"
    /\ Len(Measurements(PWSensor, pw_last.w)) = 2
    /\ Len(pw_inserted[pw_last.w]) = 3

(***************************************************************************)
(* Claims about the decision, under SpecCalc.                              *)
(***************************************************************************)
\* The readings after defaulting, and the headroom of the sensor whose task i is
MaxImportPower == GetStateValue(config.max_import_power_entity, 0)

AvgImportPower15min == GetStateValue(config.avg_import_power_15min_entity, 0)

Evaluated(i) == tasks[i].pc \in {"switch_called", "select_called", "done"}

TaskAvailablePower(i) ==
    AvailablePower(IF tasks[i].sensor \in Sensors
                   THEN power_window_30s[tasks[i].sensor] ELSE <<>>)

\* C1: _calculate_charging_allowed returns true iff max_import_power > 0 and
\* avg_import_power_15min < max_import_power; a budget of 0 gives false for every
\* average, and an average equal to the budget gives false.
C1_BudgetGate ==
    \A i \in TaskIds : Evaluated(i) =>
        /\ tasks[i].charging_allowed <=>
               (MaxImportPower > 0 /\ AvgImportPower15min < MaxImportPower)
        /\ MaxImportPower = 0 => ~tasks[i].charging_allowed
        /\ AvgImportPower15min = MaxImportPower => ~tasks[i].charging_allowed

\* C1 witness: an evaluation with a positive budget and an average equal to it.
C1_Witness ==
    \E i \in TaskIds :
        /\ Evaluated(i)
        /\ MaxImportPower > 0
        /\ AvgImportPower15min = MaxImportPower
        /\ ~tasks[i].charging_allowed

\* C2 as stated: for any voltages, currents and window contents, and a cap in 6..32,
\* available_power > 0 gives a max_current in [6, cap] and available_power <= 0
\* gives exactly 0.
C2_ClampAnyVoltage ==
    \A i \in TaskIds : Evaluated(i) =>
        /\ GetMaxCurrentCap \in 6..32
        /\ TaskAvailablePower(i).num > 0 => tasks[i].max_current \in 6..GetMaxCurrentCap
        /\ TaskAvailablePower(i).num <= 0 => tasks[i].max_current = 0

\* C2 amended: the cap is in 6..32; with available_power > 0 the max_current is in
\* [6, cap] when the three voltages do not add up to 0 and is 0 when they do (the
\* division raises and the except clause returns 0); with available_power <= 0 it is 0.
C2_Clamp ==
    \A i \in TaskIds : Evaluated(i) =>
        /\ GetMaxCurrentCap \in 6..32
        /\ (TaskAvailablePower(i).num > 0 /\ ThreeAvgVoltage # 0) =>
               tasks[i].max_current \in 6..GetMaxCurrentCap
        /\ (TaskAvailablePower(i).num > 0 /\ ThreeAvgVoltage = 0) =>
               tasks[i].max_current = 0
        /\ TaskAvailablePower(i).num <= 0 => tasks[i].max_current = 0

\* C2 witness: headroom for more than the user's cap of 10 A, from a window average;
\* the result is the cap.
C2_Witness ==
    \E i \in TaskIds :
        /\ Evaluated(i)
        /\ power_window_30s[tasks[i].sensor] # <<>>
        /\ GetMaxCurrentCap = 10
        /\ ThreeAvgVoltage > 0
        /\ TaskAvailablePower(i).num >
               11 * TaskAvailablePower(i).den * ThreeAvgVoltage
        /\ tasks[i].max_current = 10

(***************************************************************************)
(* Claims about the reconciliation.                                        *)
(***************************************************************************)
\* The calls task i has logged for a service
Calls(i, service) ==
    {k \in 1..Len(tasks[i].cmds) : tasks[i].cmds[k].cmd.service = service}

Issued(i, service) == Calls(i, service) # {}

\* Task i takes its readings and controls the switch in this step
Evaluates(i) == tasks[i].pc = "created" /\ tasks'[i].pc # "created"

\* Task i goes through lines 148-150 in this step
ControlsSelector(i) ==
    tasks[i].pc \in {"created", "switch_called"} /\ tasks'[i].pc \in {"select_called", "done"}

\* The enable toggle as the evaluation reads it
ToggleReadOn == ToggleLookupId \notin DOMAIN states \/ states[ToggleLookupId] = ON

BudgetCheckPasses == MaxImportPower > 0 /\ AvgImportPower15min < MaxImportPower

\* C3 (switch command direction): a reconciliation issues turn_on only if, with the
\* states it reads in that evaluation, the enable toggle is on and the budget check
\* passes (charging_allowed is true), and issues turn_off only if the toggle is off or
\* charging_allowed is false; turn_on is never issued while the budget check fails.
C3_SwitchDirection ==
    [][\A i \in TaskIds : Evaluates(i) =>
          /\ tasks'[i].charging_enabled = ToggleReadOn
          /\ tasks'[i].charging_allowed = BudgetCheckPasses
          /\ \A k \in 1..Len(tasks'[i].cmds) :
                LET c == tasks'[i].cmds[k].cmd
                IN  /\ c.service = "turn_on" => ToggleReadOn /\ BudgetCheckPasses
                    /\ c.service = "turn_off" => ~ToggleReadOn \/ ~BudgetCheckPasses
                    /\ c.service \in {"turn_on", "turn_off"} =>
                          c.entity = config.charger_switch_entity]_vars

\* One reconciliation has turned the charger on and, after the readings changed and
\* the charger reported on, another has turned it off.
C3_Witness ==
    \E i, j \in TaskIds :
        /\ Issued(i, "turn_on") /\ tasks[i].charging_enabled /\ tasks[i].charging_allowed
        /\ Issued(j, "turn_off") /\ ~tasks[j].charging_allowed

\* C4 (selector level choice): when _control_charger_current gets to choose, str(target)
\* is chosen if it is an option; otherwise the option of greatest integer value <= target
\* among those that parse as integers; if there is none, nothing is chosen and no
\* select_option call is made.  A commanded level never exceeds the target: of 6, 10,
\* 13, 16, 20, 32 a target of 17 gives 16 and a target of 5 gives no command.
C4_SelectorChoice ==
    \A i \in TaskIds :
        LET t == tasks[i]
            target == t.max_current
            below == {o \in select_options : ParseInt(o).ok /\ ParseInt(o).val <= target}
            commanded == {t.cmds[k].cmd.option : k \in Calls(i, "select_option")}
        IN  (/\ t.pc \in {"select_called", "done"}
             /\ config.charger_current_select_entity # NoEntity
             /\ t.charging_enabled /\ t.charging_allowed
             /\ config.charger_current_select_entity \in DOMAIN states
             /\ select_options # {})
            => /\ Str(target) \in select_options =>
                     t.selected = [found |-> TRUE, option |-> Str(target)]
               /\ Str(target) \notin select_options /\ below # {} =>
                     /\ t.selected.found
                     /\ t.selected.option \in below
                     /\ \A o \in below : ParseInt(o).val <= ParseInt(t.selected.option).val
               /\ Str(target) \notin select_options /\ below = {} =>
                     ~t.selected.found /\ commanded = {}
               /\ \A o \in commanded :
                     o = t.selected.option /\ ParseInt(o).ok /\ ParseInt(o).val <= target
               /\ select_options = ChargerLevels /\ target = 17 => t.selected.option = Str(16)
               /\ select_options = ChargerLevels /\ target = 5 => commanded = {}

\* With the levels 6, 10, 13, 16, 20, 32 and the charger at another level, a target of
\* 17 has made the reconciler command 16.
C4_Witness ==
    \E i \in TaskIds :
        /\ select_options = ChargerLevels
        /\ tasks[i].max_current = 17
        /\ \E k \in Calls(i, "select_option") :
              /\ tasks[i].cmds[k].cmd.option = Str(16)
              /\ tasks[i].cmds[k].reported # Str(16)

\* C5 as stated (idempotence): a reconciliation that follows another with the same
\* decision, and reads the same states of the charger's entities as the first one read,
\* makes no call.
C5_IdempotentSameReported ==
    chain.repeat => tasks[chain.task].cmds = <<>>

\* C5 (idempotence): a reconciliation that follows another with the same decision,
\* after the charger has handled every command of the first (none was refused or
\* is pending) and with the charger's entities otherwise unchanged, makes no call:
\* no turn_on, no turn_off, no select_option.
C5_Idempotent ==
    chain.settled => tasks[chain.task].cmds = <<>>

\* A reconciliation has made calls, the charger has handled them, and the next one,
\* with the same decision, has finished without a call.
C5_Witness ==
    /\ chain.settled
    /\ chain.prev_calls > 0
    /\ tasks[chain.task].pc = "done"
    /\ tasks[chain.task].cmds = <<>>

\* C6 (no redundant commands): within one reconciliation the switch is commanded only
\* if the state it reports at that moment differs from the desired one (turn_on only
\* when it does not report on, turn_off only when it reports on), the selector only if
\* the level it reports differs from the chosen one; each gets at most one command.
C6_NoRedundantCommand ==
    [][\A i \in TaskIds :
          /\ Evaluates(i) =>
                LET id == config.charger_switch_entity
                    reports_on == id \in DOMAIN states /\ states[id] = ON
                    desired == tasks'[i].charging_enabled /\ tasks'[i].charging_allowed
                IN  /\ reports_on = desired =>
                          ~\E k \in 1..Len(tasks'[i].cmds) :
                              tasks'[i].cmds[k].cmd.service \in {"turn_on", "turn_off"}
                    /\ \A k \in 1..Len(tasks'[i].cmds) :
                          LET c == tasks'[i].cmds[k].cmd
                          IN  /\ c.service = "turn_on" => desired /\ ~reports_on
                              /\ c.service = "turn_off" => ~desired /\ reports_on
          /\ ControlsSelector(i) =>
                LET id == config.charger_current_select_entity
                    new == {k \in 1..Len(tasks'[i].cmds) :
                               tasks'[i].cmds[k].cmd.service = "select_option"}
                IN  /\ Cardinality(new) <= 1
                    /\ \A k \in new :
                          /\ tasks'[i].selected.found
                          /\ tasks'[i].cmds[k].cmd.option = tasks'[i].selected.option
                          /\ states[id] # tasks'[i].selected.option
                    /\ (/\ tasks'[i].selected.found
                        /\ id \in DOMAIN states
                        /\ states[id] = tasks'[i].selected.option) => new = {}]_vars

\* A reconciliation has found the switch reporting the desired state and the selector
\* off the chosen level: it has commanded the selector and not the switch.
C6_Witness ==
    \E i \in TaskIds :
        /\ tasks[i].pc = "done"
        /\ tasks[i].charging_enabled /\ tasks[i].charging_allowed
        /\ config.charger_switch_entity \in DOMAIN states
        /\ ~Issued(i, "turn_on") /\ ~Issued(i, "turn_off")
        /\ Issued(i, "select_option")

\* C7 (user disable wins): while the user's switch is off, every state write of
\* ChargingAllowedSensor gives false, every state write of MaxChargingCurrentSensor
\* gives 0, and every reconciliation leaves the charger off: no turn_on, and turn_off
\* for a charger switch that reports on.
C7_UserDisableWins ==
    [][(~is_on /\ ~is_on') =>
          /\ pending_update["ChargingAllowedSensor"]
                /\ ~pending_update'["ChargingAllowedSensor"] =>
                   native_value'["ChargingAllowedSensor"].value = FALSE
          /\ pending_update["MaxChargingCurrentSensor"]
                /\ ~pending_update'["MaxChargingCurrentSensor"] =>
                   native_value'["MaxChargingCurrentSensor"].value = 0
          /\ \A i \in TaskIds : Evaluates(i) =>
                /\ \A k \in 1..Len(tasks'[i].cmds) :
                      tasks'[i].cmds[k].cmd.service # "turn_on"
                /\ (config.charger_switch_entity \in DOMAIN states
                      /\ states[config.charger_switch_entity] = ON) =>
                         \E k \in 1..Len(tasks'[i].cmds) :
                            tasks'[i].cmds[k].cmd.service = "turn_off"]_vars

\* The same, for an installation where the user's switch has the entity id that
\* _is_charging_enabled looks up.
C7_UserDisableWinsWhenRead ==
    [][entity_id.toggle = ToggleLookupId => 
          ((~is_on /\ ~is_on') =>
              /\ pending_update["ChargingAllowedSensor"]
                    /\ ~pending_update'["ChargingAllowedSensor"] =>
                       native_value'["ChargingAllowedSensor"].value = FALSE
              /\ pending_update["MaxChargingCurrentSensor"]
                    /\ ~pending_update'["MaxChargingCurrentSensor"] =>
                       native_value'["MaxChargingCurrentSensor"].value = 0
              /\ \A i \in TaskIds : Evaluates(i) =>
                    \A k \in 1..Len(tasks'[i].cmds) :
                        tasks'[i].cmds[k].cmd.service # "turn_on")]_vars

\* C10 (selector frame condition): a reconciliation that reads the enable toggle off or
\* finds charging not allowed makes no select_option call and does not even choose a
\* level: the selector keeps its level, only the switch may be commanded.
C10_SelectorFrame ==
    [][\A i \in TaskIds :
          (/\ tasks[i].pc \in {"created", "switch_called"}
           /\ tasks'[i] # tasks[i]
           /\ ~(tasks'[i].charging_enabled /\ tasks'[i].charging_allowed))
          => /\ \A k \in 1..Len(tasks'[i].cmds) :
                   /\ tasks'[i].cmds[k].cmd.service \in {"turn_on", "turn_off"}
                   /\ tasks'[i].cmds[k].cmd.entity = config.charger_switch_entity
             /\ ~tasks'[i].selected.found
             /\ states' = states
             /\ \A c \in inflight' \ inflight : c.service # "select_option"]_vars

\* Charging was not allowed while the selector was off the level for the computed
\* current: the reconciliation has turned the charger off and left the selector alone.
C10_Witness ==
    \E i \in TaskIds :
        /\ tasks[i].pc = "done"
        /\ ~tasks[i].charging_allowed
        /\ Issued(i, "turn_off")
        /\ ~Issued(i, "select_option")
        /\ config.charger_current_select_entity \in DOMAIN states
        /\ select_options # {}
        /\ SelectedOption(select_options, tasks[i].max_current).found
        /\ SelectedOption(select_options, tasks[i].max_current).option
              # states[config.charger_current_select_entity]

(***************************************************************************)
(* Claims about faults, failures and degraded readings.                    *)
(***************************************************************************)
\* The division of _calculate_max_current raises in the evaluation of task i: there is
\* headroom and the three voltages add up to 0.
DivisionFaults(i) == TaskAvailablePower(i).num > 0 /\ ThreeAvgVoltage = 0

\* C11 (conservative default on computation fault): an evaluation whose current
\* computation faults (headroom > 0, the three voltages adding up to 0) goes on with the
\* conservative decision, charging_allowed = false and max_current = 0, and so does not
\* command the charger switch on.
C11_ConservativeDefault ==
    [][\A i \in TaskIds : (Evaluates(i) /\ DivisionFaults(i)) =>
          /\ ~tasks'[i].charging_allowed
          /\ tasks'[i].max_current = 0
          /\ \A k \in 1..Len(tasks'[i].cmds) :
                tasks'[i].cmds[k].cmd.service # "turn_on"]_vars

\* The reconciliation of the switch fails in the evaluation whose record is u: the
\* switch is configured and has no state, or the turn_on/turn_off call has raised.
SwitchFailed(u) ==
    \/ config.charger_switch_entity # NoEntity /\ Missing(config.charger_switch_entity)
    \/ \E k \in 1..Len(u.cmds) :
          u.cmds[k].raised /\ u.cmds[k].cmd.service \in {"turn_on", "turn_off"}

\* C12 (per-actuator failure independence): whatever happened to the switch in an
\* evaluation (no state for the switch entity, a turn_on/turn_off call that raised, or
\* success), the selector is reconciled in the same evaluation exactly as its decision
\* requires; that step, also when the select_option call raises, keeps the switch's
\* call on record and leaves an accepted switch command with the charger; the
\* evaluation ends normally and touches nothing else.
C12_FailureIndependence ==
    [][\A i \in TaskIds : ControlsSelector(i) =>
          LET t == tasks[i]
              u == tasks'[i]
              controls == ControlsCurrent(u.charging_enabled, u.charging_allowed)
              expected == IF controls THEN SelectCommand(u.max_current) ELSE NoCommand
          IN  /\ u.selected = IF controls THEN Selected(u.max_current) ELSE NotSelected
              /\ expected.service = "none" => u.cmds = t.cmds /\ u.pc = "done"
              /\ expected.service # "none" =>
                    /\ Len(u.cmds) = Len(t.cmds) + 1
                    /\ SubSeq(u.cmds, 1, Len(t.cmds)) = t.cmds
                    /\ u.cmds[Len(u.cmds)].cmd = expected
                    /\ u.pc = "select_called"
              /\ inflight \subseteq inflight'
              /\ UNCHANGED <<hassVars, schedVars>>]_vars

\* The turn_on call of a reconciliation has raised, and the same reconciliation has
\* gone on to command the selector.
C12_Witness ==
    \E i \in TaskIds :
        /\ Len(tasks[i].cmds) = 2
        /\ tasks[i].cmds[1].cmd.service = "turn_on" /\ tasks[i].cmds[1].raised
        /\ tasks[i].cmds[2].cmd.service = "select_option" /\ ~tasks[i].cmds[2].raised
        /\ SwitchFailed(tasks[i])

\* What the texts of the model denote: the number a source reports with that text, or
\* that it reports no number.
ReadTable ==
    {[text |-> Str(n), numeric |-> TRUE, number |-> n] :
        n \in {0 - 100, 0, 10, 16, 100, 230, 4000, 5000}}
    \cup {[text |-> DECIMAL_230, numeric |-> TRUE, number |-> 230]}
    \cup {[text |-> x, numeric |-> FALSE, number |-> 0] :
             x \in {UNKNOWN, UNAVAILABLE, AUTO, TRAILING_LETTER, EMPTY, ON, OFF}}

\* The source of key k reports a number
ReportsNumber(k) ==
    /\ config[k] # NoEntity
    /\ config[k] \in DOMAIN states
    /\ \E c \in ReadTable : c.text = states[config[k]] /\ c.numeric

ReportedNumber(k) == (CHOOSE c \in ReadTable : c.text = states[config[k]]).number

DefaultOf(k) ==
    IF k \in {"voltage_l1_entity", "voltage_l2_entity", "voltage_l3_entity"} THEN 230
    ELSE 0

\* C13 (reading degradation): for every source, _get_state_value gives the number the
\* source reports and, when the source is not configured, has no state, is unknown or
\* unavailable, or reports text that is not a number, the default (0, or 230 for a
\* voltage); so an evaluation without a max_import_power reading finds charging not
\* allowed, and one without a 15-minute average reading takes the average as 0 W.
C13_ReadingDegradation ==
    /\ \A k \in ReadingKeys :
          /\ \A id \in {config[k]} \cap DOMAIN states :
                \E c \in ReadTable : c.text = states[id]
          /\ GetStateValue(config[k], DefaultOf(k)) =
                IF ReportsNumber(k) THEN ReportedNumber(k) ELSE DefaultOf(k)
    /\ \A i \in TaskIds : Evaluated(i) =>
          /\ ~ReportsNumber("max_import_power_entity") => ~tasks[i].charging_allowed
          /\ ~ReportsNumber("avg_import_power_15min_entity") =>
                (tasks[i].charging_allowed <=>
                    (ReportsNumber("max_import_power_entity")
                       /\ 0 < ReportedNumber("max_import_power_entity")))

\* An evaluation has found charging allowed with a budget of 5000 W while the source of
\* the 15-minute average reported text that is not a number, and the first voltage
\* source was unavailable.
C13_Witness ==
    \E i \in TaskIds :
        /\ Evaluated(i)
        /\ tasks[i].charging_allowed
        /\ config.avg_import_power_15min_entity \in DOMAIN states
        /\ states[config.avg_import_power_15min_entity] = TRAILING_LETTER
        /\ ReportsNumber("max_import_power_entity")
        /\ ReportedNumber("max_import_power_entity") = 5000
        /\ config.voltage_l1_entity \in DOMAIN states
        /\ states[config.voltage_l1_entity] = UNAVAILABLE
        /\ Voltage(config.voltage_l1_entity) = 230

(***************************************************************************)
(* Claims about timing and scheduling.                                     *)
(***************************************************************************)
\* This step delivers a state change of a source to the sensors
Notifies ==
    \E id \in ReadingIds :
        \/ (id \in DOMAIN states) # (id \in DOMAIN states')
        \/ id \in DOMAIN states /\ id \in DOMAIN states' /\ states[id] # states'[id]

\* Sensor s has not recomputed yet: its timer has not fired and no state change has
\* made it recompute
NoPreviousRecompute(s) == next_fire[s] = config.update_interval /\ notified[s] = <<>>

\* C14 (debounce): a state change notification makes a sensor recompute, and sets its
\* last_update to now, iff the sensor has not recomputed before or at least
\* update_interval seconds have passed since last_update; otherwise nothing is scheduled
\* and last_update stays.  Any two recomputes of a sensor made by notifications are at
\* least update_interval seconds apart.
C14_Debounce ==
    [][Notifies =>
          \A s \in Sensors :
              LET due == \/ NoPreviousRecompute(s)
                         \/ /\ last_update[s] # NoTime
                            /\ now - last_update[s] >= config.update_interval
              IN  /\ due => /\ last_update'[s] = now
                            /\ pending_update'[s]
                            /\ notified'[s] = Append(notified[s], now)
                  /\ ~due => /\ last_update'[s] = last_update[s]
                             /\ pending_update'[s] = pending_update[s]
                             /\ notified'[s] = notified[s]
                  /\ \A j, k \in 1..Len(notified'[s]) :
                        j < k => notified'[s][k] - notified'[s][j]
                                    >= config.update_interval]_vars

\* A sensor has recomputed on a first notification before its timer ever fired, and on
\* a second one exactly update_interval later; the recompute is still scheduled.
C14_Witness ==
    \E s \in Sensors :
        /\ Len(notified[s]) = 2
        /\ notified[s][1] < config.update_interval
        /\ notified[s][2] - notified[s][1] = config.update_interval
        /\ last_update[s] = notified[s][2]
        /\ now = notified[s][2]
        /\ pending_update[s]

\* The charger's entities report what the decision asks for, with enable_toggle as given:
\* the switch is on iff enable_toggle and charging_allowed; in that case, if a level <=
\* max_current exists, the selector is at the chosen level.
Corrected(enable_toggle) ==
    /\ (states[config.charger_switch_entity] = ON) <=> (enable_toggle /\ BudgetCheckPasses)
    /\ \A s \in Sensors :
          LET selected == SelectedOption(select_options,
                                         CalculateMaxCurrent(power_window_30s[s]))
          IN  (enable_toggle /\ BudgetCheckPasses /\ selected.found) =>
                  states[config.charger_current_select_entity] = selected.option

\* No command is with the charger and no reconciliation on record has made a call
NoCommands == inflight = {} /\ \A i \in TaskIds : tasks[i].cmds = <<>>

\* C15 (self-correction): with sources, enable switch and cap that stay as they are,
\* timers that keep firing and service calls that fail only finitely often, eventually
\* the charger's switch reports on iff the user's enable switch is on and charging is
\* allowed, the selector (when the switch is on and a level <= max_current exists)
\* reports the chosen level, and from then on no command is made.
C15_SelfCorrection == <>[](Corrected(is_on) /\ NoCommands)

\* The same, with the enable toggle as _is_charging_enabled reads it.
C15_SelfCorrectionAsRead == <>[](Corrected(IsChargingEnabled) /\ NoCommands)

\* Task i has commanded the switch and has yet to reconcile the selector
MidSequence(i) == tasks[i].pc = "switch_called"

\* C16 as stated (run to completion): while a reconciliation is between its decision and
\* its last command, no other reconciliation, of either sensor or of a later tick, takes
\* its decision or makes a command, and nothing touches the PowerWindows or the
\* last_update of the sensor it belongs to.
C16_NoOverlap ==
    [][\A i \in TaskIds :
          (MidSequence(i) /\ tasks'[i] = tasks[i]) =>
              /\ \A j \in TaskIds \ {i} :
                    tasks[j].pc \in {"created", "switch_called"} => tasks'[j] = tasks[j]
              /\ \A s \in Sensors \cap {tasks[i].sensor} :
                    /\ power_window_30s'[s] = power_window_30s[s]
                    /\ power_window_15min'[s] = power_window_15min[s]
                    /\ last_update'[s] = last_update[s]]_vars

\* C16 amended: a reconciliation takes its decision once, in the uninterrupted step
\* in which it starts, from the toggle, the readings and its sensor's 30 s window as
\* they are then; when it resumes after a service call it keeps that decision and
\* touches no PowerWindow, no last_update and no scheduled write.  (The timer and
\* notification callbacks are single steps.  Reconciliations are not serialised: others
\* may run while one is suspended in a service call.)
C16_DecisionTakenOnce ==
    [][\A i \in TaskIds :
          /\ Evaluates(i) =>
                /\ tasks'[i].charging_enabled = IsChargingEnabled
                /\ tasks'[i].charging_allowed = CalculateChargingAllowed
                /\ tasks'[i].max_current =
                      CalculateMaxCurrent(IF tasks[i].sensor \in Sensors
                                          THEN power_window_30s[tasks[i].sensor]
                                          ELSE <<>>)
          /\ (tasks[i].pc \in {"switch_called", "select_called"} /\ tasks'[i] # tasks[i]) =>
                /\ Decision(tasks'[i]) = Decision(tasks[i])
                /\ tasks'[i].sensor = tasks[i].sensor
                /\ UNCHANGED <<windowVars, schedVars>>]_vars

\* Two reconciliations are in progress at once: one is suspended in its switch call,
\* the other, with a different decision, has made a call too.
C16_Witness ==
    \E i, j \in TaskIds :
        /\ i # j
        /\ MidSequence(i)
        /\ tasks[j].pc \in {"switch_called", "select_called"}
        /\ Decision(tasks[i]) # Decision(tasks[j])

(***************************************************************************)
(* Claims about the computed current and the two outputs.                  *)
(***************************************************************************)
Min(a, b) == IF a <= b THEN a ELSE b

Max(a, b) == IF a >= b THEN a ELSE b

\* q = floor(n / d) for d > 0, by its defining inequalities
IsFloorOf(q, n, d) == q * d <= n /\ n < (q + 1) * d

\* The numbers of the claim's first example: budget 5000 W, 30 s average 3000 W, charger
\* power 1000 W (5 A at 200 V), mean voltage 230 V
FirstExample ==
    /\ MaxImportPower = 5000
    /\ power_window_30s["MaxChargingCurrentSensor"] = <<<<3000, 10>>>>
    /\ CalculateChargerPower = 1000
    /\ ThreeAvgVoltage = 3 * 230

\* C17 (current formula): with available_power > 0 and a positive mean voltage,
\* max_current = min(cap, max(6, floor(available_power / (3 * avg_voltage)))), where
\* available_power = max_import_power - (avg_power_30s - charger_power) and avg_voltage
\* is the mean of the three voltages, 230 for a missing one; budget 5000, 30 s average
\* 3000, charger power 1000 and 230 V give 6; a raw value of 24 with cap 10 gives 10.
C17_CurrentFormula ==
    \A i \in TaskIds :
        (Evaluated(i) /\ TaskAvailablePower(i).num > 0 /\ ThreeAvgVoltage > 0) =>
            LET n == TaskAvailablePower(i).num
                d == TaskAvailablePower(i).den * ThreeAvgVoltage
            IN  /\ \E q \in 0..40 :
                      /\ IsFloorOf(q, n, d)
                      /\ tasks[i].max_current = Min(GetMaxCurrentCap, Max(6, q))
                      /\ (q = 24 /\ GetMaxCurrentCap = 10) => tasks[i].max_current = 10
                /\ FirstExample =>
                      /\ n = 3000 * TaskAvailablePower(i).den
                      /\ tasks[i].max_current = 6

\* An evaluation with a headroom of 17000 W at a mean voltage of 230 V: the raw value
\* is 24, the cap is 10, the result is 10.
C17_Witness ==
    \E i \in TaskIds :
        /\ Evaluated(i)
        /\ TaskAvailablePower(i).num = 17000 * TaskAvailablePower(i).den
        /\ ThreeAvgVoltage = 3 * 230
        /\ IsFloorOf(24, 17000, 3 * 230)
        /\ GetMaxCurrentCap = 10
        /\ tasks[i].max_current = 10

\* The value the state machine holds for the max-current sensor, once written
Exposed == native_value["MaxChargingCurrentSensor"]

\* Two evaluations have been made under different 15-minute averages, with one outcome
\* of the budget check each.
DifferInAllowed(i, j) ==
    /\ Evaluated(i) /\ Evaluated(j)
    /\ tasks[i].charging_allowed /\ ~tasks[j].charging_allowed

\* C18 (independent outputs): evaluations whose readings differ only in
\* avg_import_power_15min compute the same max_current, whatever charging_allowed is,
\* and, the control being enabled when the sensor reads the switch, the value exposed
\* by the max-current sensor is the value the reconciler has computed.
C18_IndependentOutputs ==
    /\ \A i, j \in TaskIds :
           (Evaluated(i) /\ Evaluated(j)) => tasks[i].max_current = tasks[j].max_current
    /\ \A i \in TaskIds :
           (Evaluated(i) /\ Exposed.written /\ IsChargingEnabled) =>
               Exposed.value = tasks[i].max_current

\* C18 as stated: the exposed value is the reconciler's value in every case.
C18_ExposedIsReconcilers ==
    \A i \in TaskIds :
        (Evaluated(i) /\ Exposed.written) => Exposed.value = tasks[i].max_current

\* Two evaluations, one allowing and one not allowing to charge, with the same current
\* above 6 A, which is also the exposed value.
C18_Witness ==
    \E i, j \in TaskIds :
        /\ DifferInAllowed(i, j)
        /\ tasks[i].max_current = tasks[j].max_current
        /\ tasks[j].max_current > 6
        /\ Exposed.written /\ IsChargingEnabled
        /\ Exposed.value = tasks[j].max_current

\* The outcome of the budget check for the external readings
BudgetAllows == MaxImportPower > 0 /\ AvgImportPower15min < MaxImportPower

\* Every sample of the sensor's 15-minute window, and there is one, is above the budget.
WindowAboveBudget(s) ==
    /\ power_window_15min[s] # <<>>
    /\ \A k \in 1..Len(power_window_15min[s]) : power_window_15min[s][k][1] > MaxImportPower

\* C19 (external 15-minute figure): with external readings of avg_import_power_15min
\* and max_import_power that stay the same, every evaluation gives the same
\* charging_allowed, the one of the budget check on these two readings, whatever the
\* samples in the internal 15-minute windows; so does the charging-allowed sensor when
\* the control is enabled.
C19_ExternalFigure ==
    /\ \A i, j \in TaskIds :
           (Evaluated(i) /\ Evaluated(j)) =>
               tasks[i].charging_allowed = tasks[j].charging_allowed
    /\ \A i \in TaskIds : Evaluated(i) => (tasks[i].charging_allowed <=> BudgetAllows)
    /\ (native_value["ChargingAllowedSensor"].written /\ IsChargingEnabled) =>
           (native_value["ChargingAllowedSensor"].value <=> BudgetAllows)

\* The tasks of the two sensors have both decided to allow charging; the sensors'
\* 15-minute windows hold different samples, those of one all above the budget, those
\* of the other all below it.
C19_Witness ==
    \E i, j \in TaskIds :
        /\ Evaluated(i) /\ Evaluated(j)
        /\ tasks[i].sensor \in Sensors /\ tasks[j].sensor \in Sensors
        /\ tasks[i].sensor # tasks[j].sensor
        /\ tasks[i].charging_allowed /\ tasks[j].charging_allowed
        /\ WindowAboveBudget(tasks[i].sensor)
        /\ ~WindowAboveBudget(tasks[j].sensor)
        /\ power_window_15min[tasks[j].sensor] # <<>>

(***************************************************************************)
(* Claims about the user's controls.                                       *)
(***************************************************************************)
\* s is the decimal spelling of a whole number from 6 to 32
InCapDomain(s) ==
    \E n \in 6..32 : s = Str(n)

\* The select has been constructed and not been added yet.
CapConstructed == Missing(entity_id.cap)

\* What a step of the select may do to the current option
CapStep ==
    /\ \A option \in NotCapOptions :
           SelectOptionCall(option) => current_option' = current_option
    /\ \A option \in CapOptions :
           SelectOptionCall(option) => current_option' = option
    /\ \A last_state \in LastStates :
           SelectAddedToHass(last_state) =>
               current_option' = IF last_state = ABSENT THEN current_option
                                 ELSE IF InCapDomain(last_state) THEN last_state
                                 ELSE Str(16)

\* C20 (cap domain): the current option of MaxChargingCurrentSelect is always one of
\* "6".."32": it is "16" after construction, a restored state in the domain is taken
\* and one outside it replaced by "16", a select_option call with an option outside the
\* domain leaves the current option unchanged, and the state written for the entity is
\* the current option.
C20_CapDomain ==
    /\ current_option = Str(16)
    /\ [](InCapDomain(current_option)
          /\ (CapConstructed => current_option = Str(16))
          /\ (~CapConstructed => states[entity_id.cap] = current_option))
    /\ [][CapStep]_vars

\* The select has been added and all MaxCapCalls calls made; the option is the lowest
\* one, which is neither the initial option nor the replacement of a restored state
\* outside the domain.
C20_Witness ==
    /\ ~CapConstructed
    /\ env_changes = MaxCapCalls
    /\ current_option = Str(6)
    /\ states[entity_id.cap] = Str(6)

(***************************************************************************)
(* Claims about the power figures and the windows.                         *)
(***************************************************************************)
\* The current for a headroom of num / den watts (den > 0) and voltages that add up to
\* a positive number: none without headroom, else the floor of the quotient by three
\* times the mean voltage, raised to 6 and cut at the cap
CurrentForHeadroom(num, den) ==
    IF num <= 0 THEN 0
    ELSE LET q == CHOOSE k \in 0..200 : IsFloorOf(k, num, den * ThreeAvgVoltage)
         IN  Min(GetMaxCurrentCap, Max(6, q))

\* The window the evaluation of task i reads
TaskWindow(i) == power_window_30s[tasks[i].sensor]

\* The current an evaluation has to give for a total power and a charger power: from
\* the total power when the 30 s window retains no sample, from the mean of the
\* retained samples otherwise
HeadroomCurrent(i, total_power, charger_power) ==
    LET kept == Cleanup(TaskWindow(i), now, 30)
    IN  IF kept = <<>>
        THEN CurrentForHeadroom(MaxImportPower - (total_power - charger_power), 1)
        ELSE CurrentForHeadroom(MaxImportPower * Len(kept)
                                   - (SumPower(kept) - charger_power * Len(kept)),
                                Len(kept))

\* The current an evaluation now has to give
FallbackCurrent(i) == HeadroomCurrent(i, CalculateCurrentPower, CalculateChargerPower)

\* What the evaluation of a task gives
FallbackStep ==
    \A i \in TaskIds : TaskStart(i) => tasks'[i].max_current = FallbackCurrent(i)

\* C21 (empty-window fallback): an evaluation whose 30 s window retains no sample
\* computes the current from the instantaneous total power of the readings it reads;
\* one whose window retains a sample computes it from the mean of the retained samples,
\* so that evaluations that differ in the instantaneous power only give one current.
C21_EmptyWindowFallback ==
    /\ [][FallbackStep]_vars
    /\ [](\A i, j \in TaskIds :
             (Evaluated(i) /\ Evaluated(j) /\ TaskWindow(i) # <<>> /\ TaskWindow(j) # <<>>) =>
                 tasks[i].max_current = tasks[j].max_current)

\* Two evaluations with empty windows: the instantaneous power has changed in between,
\* and so has the current.
C21_Witness ==
    \E i, j \in TaskIds :
        /\ Evaluated(i) /\ Evaluated(j)
        /\ TaskWindow(i) = <<>> /\ TaskWindow(j) = <<>>
        /\ tasks[i].max_current = 0
        /\ tasks[j].max_current >= 6

\* The number a source stands for: the one it reports, else 0, or 230 for a voltage
PhaseNumber(k) == IF ReportsNumber(k) THEN ReportedNumber(k) ELSE DefaultOf(k)

CurrentKeys == <<"current_l1_entity", "current_l2_entity", "current_l3_entity">>

VoltageKeys == <<"voltage_l1_entity", "voltage_l2_entity", "voltage_l3_entity">>

ChargerCurrentKeys ==
    <<"charger_current_l1_entity", "charger_current_l2_entity",
      "charger_current_l3_entity">>

\* The sum over the three phases of voltage * current, for the given currents
PhaseSum(current_keys) ==
    PhaseNumber(VoltageKeys[1]) * PhaseNumber(current_keys[1])
      + PhaseNumber(VoltageKeys[2]) * PhaseNumber(current_keys[2])
      + PhaseNumber(VoltageKeys[3]) * PhaseNumber(current_keys[3])

\* No current is positive and one is negative, the voltages being positive.
Exporting(current_keys) ==
    /\ \A p \in 1..3 : PhaseNumber(VoltageKeys[p]) > 0
    /\ \A p \in 1..3 : PhaseNumber(current_keys[p]) <= 0
    /\ \E p \in 1..3 : PhaseNumber(current_keys[p]) < 0

\* The measurement a window has taken last
LastMeasurement(measurements) == measurements[Len(measurements)]

\* What a timer callback and an evaluation do with the two figures
PowerStep ==
    /\ \A s \in Sensors :
          UpdatePowerMeasurements(s) =>
              /\ LastMeasurement(power_window_30s'[s]) = <<PhaseSum(CurrentKeys), now>>
              /\ LastMeasurement(power_window_15min'[s]) = <<PhaseSum(CurrentKeys), now>>
    /\ \A i \in TaskIds :
          TaskStart(i) =>
              tasks'[i].max_current =
                  HeadroomCurrent(i, PhaseSum(CurrentKeys), PhaseSum(ChargerCurrentKeys))

\* C22 (power model): total_power is the sum over the three phases of voltage *
\* current, a current counting 0 when its source is not configured or reports no
\* number and a voltage 230; charger_power is the same sum with the charger's currents;
\* both have a value for every reading set, which the timer callback samples and the
\* evaluation uses; currents that are negative give a negative power.
C22_PowerModel ==
    /\ [](/\ CalculateCurrentPower = PhaseSum(CurrentKeys)
          /\ CalculateChargerPower = PhaseSum(ChargerCurrentKeys)
          /\ Exporting(CurrentKeys) => CalculateCurrentPower < 0
          /\ Exporting(ChargerCurrentKeys) => CalculateChargerPower < 0)
    /\ [][PowerStep]_vars

\* The timer callback has sampled a negative total power, for currents of which one is
\* unavailable and voltages of which one is missing, and the task has been evaluated.
C22_Witness ==
    \E i \in TaskIds :
        /\ Evaluated(i)
        /\ tasks[i].sensor \in Sensors
        /\ power_window_15min[tasks[i].sensor] # <<>>
        /\ LastMeasurement(power_window_15min[tasks[i].sensor])[1] < 0
        /\ \E p \in 1..3 : config[CurrentKeys[p]] \in DOMAIN states
                           /\ states[config[CurrentKeys[p]]] = UNAVAILABLE
        /\ \E p \in 1..3 : config[VoltageKeys[p]] \notin DOMAIN states
        /\ tasks[i].max_current > 6

(***************************************************************************)
(* Claims about the reconciliation without headroom and about overlap.     *)
(***************************************************************************)
\* Task i has been evaluated with the control enabled, charging allowed and no current.
ZeroHeadroomTask(i) ==
    /\ Evaluated(i)
    /\ tasks[i].charging_enabled /\ tasks[i].charging_allowed
    /\ tasks[i].max_current = 0

\* The services task i has called
Services(i) == {tasks[i].cmds[k].cmd.service : k \in 1..Len(tasks[i].cmds)}

\* Every level the charger's selector offers is a positive number (or no number).
PositiveLevels == \A o \in select_options : ParseInt(o).ok => ParseInt(o).val > 0

\* What the evaluation of a task without headroom does about the switch
ZeroHeadroomStep ==
    \A i \in TaskIds :
        (TaskStart(i) /\ tasks'[i].charging_enabled /\ tasks'[i].charging_allowed
            /\ tasks'[i].max_current = 0) =>
            /\ (~Missing("switch.charger") /\ states["switch.charger"] # ON) =>
                   /\ Len(tasks'[i].cmds) = 1
                   /\ tasks'[i].cmds[1].cmd.service = "turn_on"
            /\ (Missing("switch.charger") \/ states["switch.charger"] = ON) =>
                   "turn_on" \notin {tasks'[i].cmds[k].cmd.service :
                                        k \in 1..Len(tasks'[i].cmds)}

\* C23 (zero headroom while allowed): a reconciliation with the control enabled,
\* charging allowed and max_current = 0 turns the switch on when it reports another
\* state and leaves it when it reports on, never turns it off, and, the selector's
\* levels being positive, chooses no level and calls no select_option, so that the
\* selector keeps its level; no reconciliation with the control enabled and charging
\* allowed turns the switch off, whatever its max_current.
C23_ZeroHeadroom ==
    /\ [][ZeroHeadroomStep]_vars
    /\ [](\A i \in TaskIds :
             /\ (Evaluated(i) /\ tasks[i].charging_enabled /\ tasks[i].charging_allowed) =>
                    "turn_off" \notin Services(i)
             /\ (ZeroHeadroomTask(i) /\ PositiveLevels) =>
                    /\ "select_option" \notin Services(i)
                    /\ tasks[i].pc = "done" => ~tasks[i].selected.found
                    /\ states["select.charger_current"] = Str(16))

\* C23 as stated: without headroom no select_option is called.
C23_NoSelectCommand ==
    \A i \in TaskIds : ZeroHeadroomTask(i) => "select_option" \notin Services(i)

\* A reconciliation without headroom has turned the switch on, has returned from the
\* call and ended without a level for the selector, whose levels are positive; the
\* switch reports on.
C23_Witness ==
    \E i \in TaskIds :
        /\ ZeroHeadroomTask(i)
        /\ PositiveLevels
        /\ tasks[i].pc = "done"
        /\ Services(i) = {"turn_on"}
        /\ ~tasks[i].selected.found
        /\ states["switch.charger"] = ON
        /\ states["select.charger_current"] = Str(16)

\* The commands that are with the charger or on the record of a reconciliation
CommandsMade ==
    inflight \cup UNION {{tasks[i].cmds[k].cmd : k \in 1..Len(tasks[i].cmds)} : i \in TaskIds}

\* No two commands made for one entity differ: not turn_on and turn_off, not two levels.
NoContradiction ==
    \A c, d \in CommandsMade : c.entity = d.entity => c = d

\* Two reconciliations have made the same command, the second while the charger had
\* not yet handled the first.
SameCommandTwice ==
    \E i, j \in TaskIds :
        /\ i # j
        /\ \E k \in 1..Len(tasks[i].cmds), l \in 1..Len(tasks[j].cmds) :
              /\ tasks[i].cmds[k].cmd = tasks[j].cmds[l].cmd
              /\ tasks[i].cmds[k].reported = tasks[j].cmds[l].reported

\* C24 (overlapping reconciliations): with readings, enable toggle and cap that stay as
\* they are, under every interleaving of the two sensors' reconciliations no two
\* commands contradict each other (turn_on and turn_off, or two selector levels), and
\* in the end the charger's switch and selector are in the desired state: on iff the
\* user's enable switch is on and charging is allowed, and at the chosen level.
C24_Overlap == [](NoContradiction) /\ <>[]Corrected(is_on)

\* The same, with the enable toggle as _is_charging_enabled reads it.
C24_OverlapAsRead == [](NoContradiction) /\ <>[]Corrected(IsChargingEnabled)

(***************************************************************************)
(* Claims about notifications, the timer and the manual service.           *)
(***************************************************************************)
\* The timer of sensor s has fired
FirstTickFired(s) == next_fire[s] > config.update_interval

\* The time the timer of sensor s has fired last
LastTick(s) == next_fire[s] - config.update_interval

\* The present is strictly between two consecutive firings of the timer of sensor s.
BetweenTicks(s) == FirstTickFired(s) /\ LastTick(s) < now /\ now < next_fire[s]

\* The notification of this step makes sensor s recompute.
Accepted(s) == notified'[s] # notified[s]

\* At least update_interval has passed since the last firing of the timer of sensor s
\* and since the last notification that made it recompute.
IntervalPassed(s) ==
    /\ now - LastTick(s) >= config.update_interval
    /\ notified[s] # <<>> =>
           now - notified[s][Len(notified[s])] >= config.update_interval

\* C25 (notification starvation): once the timer of a sensor has fired, a notification
\* that arrives strictly between two consecutive firings changes nothing for the
\* sensor; a notification makes a sensor recompute only before the timer's first
\* firing or when at least update_interval has passed since the last firing and the
\* last notification that made it recompute.
C25_Starvation ==
    [][Notifies =>
          \A s \in Sensors :
              /\ BetweenTicks(s) =>
                    /\ ~Accepted(s)
                    /\ pending_update'[s] = pending_update[s]
                    /\ last_update'[s] = last_update[s]
              /\ Accepted(s) => (~FirstTickFired(s) \/ IntervalPassed(s))]_vars

\* The timer of a sensor has fired, a source has changed between two firings and the
\* sensor, which no notification has ever made recompute, has nothing scheduled.
C25_Witness ==
    \E s \in Sensors :
        /\ BetweenTicks(s)
        /\ states[config.avg_import_power_15min_entity] = Str(5000)
        /\ notified[s] = <<>>
        /\ ~pending_update[s]
        /\ native_value[s].written

\* A window of sensor s holds, after the step, a sample it did not hold before.
SampleAdded(s) ==
    \E w \in {<<power_window_30s[s], power_window_30s'[s]>>,
              <<power_window_15min[s], power_window_15min'[s]>>} :
        \E k \in 1..Len(w[2]) : \A j \in 1..Len(w[1]) : w[2][k] # w[1][j]

\* The step starts a reconciliation.
ReconciliationStarted ==
    \E i \in TaskIds : tasks'[i].pc = "created" /\ tasks[i].pc # "created"

\* A charger's switch or selector is configured.
ChargerConfigured ==
    config.charger_switch_entity # NoEntity \/ config.charger_current_select_entity # NoEntity

\* C26 (notification frame condition): a reading-change notification, accepted or
\* suppressed, changes no PowerWindow, starts no reconciliation and makes no command;
\* a sample is added only by a sensor's timer callback, a reconciliation is started
\* only by a timer callback or the update_charger service, and a timer callback starts
\* one iff a charger's switch or selector is configured.
C26_NotificationFrame ==
    [][/\ Notifies => UNCHANGED <<windowVars, tasks, inflight>>
       /\ (\E s \in Sensors : SampleAdded(s)) =>
              \E s \in Sensors : UpdatePowerMeasurements(s)
       /\ ReconciliationStarted =>
              ((\E s \in Sensors : UpdatePowerMeasurements(s))
                  \/ UpdateChargerFromCalculations)
       /\ \A s \in Sensors :
              UpdatePowerMeasurements(s) =>
                  /\ SampleAdded(s)
                  /\ ReconciliationStarted <=> ChargerConfigured]_vars

\* Both sensors have recomputed on a notification and their timers have fired and
\* added one sample each; no charger is configured, no reconciliation is on record and
\* no command is with a charger.
C26_Witness ==
    /\ ~ChargerConfigured
    /\ \A s \in Sensors :
          /\ Len(power_window_30s[s]) = 1
          /\ Len(power_window_15min[s]) = 1
          /\ notified[s] # <<>>
    /\ \A i \in TaskIds : tasks[i] = NoTask
    /\ inflight = {}

\* The most samples the 30 s window can hold with the configured interval
PopulationBound == (30 \div config.update_interval) + 1

\* The last firing of the timer of sensor s is at most 30 s ago.
TickWithinWindow(s) == FirstTickFired(s) /\ now - LastTick(s) <= 30

\* The power the current computation of sensor s has to start from with an interval
\* above 30 s: the latest sample up to 30 s after the timer fired, else the
\* instantaneous power
PowerOfLatestOrNow(s) ==
    IF TickWithinWindow(s) THEN LastMeasurement(power_window_30s[s])[1]
    ELSE CalculateCurrentPower

\* C27 (window population): with a timer firing every update_interval seconds the 30 s
\* window of a sensor holds at most floor(30 / update_interval) + 1 samples; with an
\* interval above 30 s it holds at most one, its average is the latest sample up to
\* 30 s after the timer fired and None later, and the max-current sensor then computes
\* its value from the instantaneous power.
C27_WindowPopulation ==
    /\ [](\A s \in Sensors :
             /\ Len(power_window_30s[s]) <= PopulationBound
             /\ config.update_interval > 30 =>
                   /\ Len(power_window_30s[s]) <= 1
                   /\ LET average == GetAverage(power_window_30s[s], now, 30)
                      IN  IF TickWithinWindow(s)
                          THEN /\ ~average.none
                               /\ average.num =
                                     LastMeasurement(power_window_30s[s])[1] * average.den
                          ELSE average.none)
    /\ [][(config.update_interval > 30 /\ UpdateHaState("MaxChargingCurrentSensor")) =>
             native_value'["MaxChargingCurrentSensor"].value =
                 CurrentForHeadroom(MaxImportPower
                                      - (PowerOfLatestOrNow("MaxChargingCurrentSensor")
                                           - CalculateChargerPower), 1)]_vars

\* With an interval of 60 s the max-current sensor has written its value 60 s after its
\* timer fired: the sample of 2300 W has been purged, the window is empty and the value,
\* 6 A, is the one for the instantaneous power of 6900 W.
C27_Witness ==
    /\ config.update_interval = 60
    /\ FirstTickFired("MaxChargingCurrentSensor")
    /\ now - LastTick("MaxChargingCurrentSensor") = 60
    /\ power_window_30s["MaxChargingCurrentSensor"] = <<>>
    /\ power_window_15min["MaxChargingCurrentSensor"] = <<<<2300, 60>>>>
    /\ CalculateCurrentPower = 6900
    /\ ~pending_update["MaxChargingCurrentSensor"]
    /\ native_value["MaxChargingCurrentSensor"] = [written |-> TRUE, value |-> 6]

\* Task i is the reconciliation of the service's temporary sensor.
ServiceTask(i) == tasks[i].sensor = "temp"

\* What the service and the reconciliation of its temporary sensor do
ServiceStep ==
    /\ \A entry_id \in ServiceEntryIds :
          HandleUpdateCharger(entry_id) =>
              /\ UNCHANGED <<windowVars, last_update, inflight>>
              /\ entry_id \notin {NoEntity, EntryId} => tasks' = tasks
    /\ \A i \in TaskIds :
          (ServiceTask(i) /\ tasks'[i].sensor = "temp" /\ tasks'[i] # tasks[i]) =>
              UNCHANGED <<windowVars, last_update>>
    /\ \A i \in TaskIds :
          (ServiceTask(i) /\ TaskStart(i)) =>
              tasks'[i].max_current =
                  CurrentForHeadroom(MaxImportPower - (CalculateCurrentPower
                                                         - CalculateChargerPower), 1)

\* C28 (manual service): the reconciliation of the update_charger service computes
\* max_current from the instantaneous total power, whatever the running sensors'
\* windows hold; the service and its reconciliation leave the windows and last_update
\* of the running sensors unchanged; for an entry_id that is not an entry's nothing is
\* reconciled and no command made.
C28_ManualService == [][ServiceStep]_vars

\* The service's reconciliation has found 6 A, for the instantaneous power of 6900 W,
\* and chosen the level 6, while the windows of the running sensors hold their sample
\* of 2300 W, for which the current is 11 A.
C28_Witness ==
    \E i \in TaskIds :
        /\ ServiceTask(i)
        /\ Evaluated(i)
        /\ tasks[i].max_current = 6
        /\ tasks[i].selected = [found |-> TRUE, option |-> Str(6)]
        /\ CalculateCurrentPower = 6900
        /\ \A s \in Sensors :
              /\ power_window_30s[s] = <<<<2300, 10>>>>
              /\ CalculateMaxCurrent(power_window_30s[s]) = 11
              /\ last_update[s] = 10

(***************************************************************************)
(* Claims about the two windows of one sensor.                             *)
(***************************************************************************)
\* The sample is one of the measurements.
Retains(measurements, sample) ==
    \E k \in 1..Len(measurements) : measurements[k] = sample

\* Window w of sensor s keeps, in the step, every sample that is not older than the
\* window's length.
KeepsRecent(s, w) ==
    \E old \in {Measurements(s, w)} :
        \A k \in 1..Len(old) :
            old[k][2] >= now' - window_seconds(w) =>
                Retains(IF w = "power_window_30s" THEN power_window_30s'[s]
                                                  ELSE power_window_15min'[s], old[k])

\* What a step does to the windows of the sensors
NestingStep ==
    \A s \in Sensors :
        /\ UpdatePowerMeasurements(s) =>
              /\ power_window_30s'[s] # <<>>
              /\ power_window_15min'[s] # <<>>
              /\ LastMeasurement(power_window_30s'[s]) = <<CalculateCurrentPower, now>>
              /\ LastMeasurement(power_window_15min'[s]) = <<CalculateCurrentPower, now>>
              /\ Len(power_window_15min'[s]) <= Len(power_window_15min[s]) + 1
              /\ Len(power_window_30s'[s]) <= Len(power_window_30s[s]) + 1
        /\ ~UpdatePowerMeasurements(s) =>
              power_window_15min'[s] = power_window_15min[s]
        /\ \A w \in Windows : KeepsRecent(s, w)

\* C29 (window nesting), the steps: a tick adds one sample, the same (power, timestamp),
\* to both windows of its sensor; an average query on the 30 s window leaves the 15 min
\* window as it is, and no step removes from a window a sample that is not older than
\* that window's length.
C29_SeparateWindows == [][NestingStep]_vars

\* C29 (window nesting): the retained samples of the 30 s window of a sensor are always
\* a suffix of the retained samples of its 15 min window, and the steps are as in
\* C29_SeparateWindows.
C29_WindowNesting ==
    /\ [](\A s \in Sensors : IsSuffix(power_window_30s[s], power_window_15min[s]))
    /\ C29_SeparateWindows

\* An average query has emptied the 30 s window of a sensor whose 15 min window has
\* dropped its first samples and holds at least 15.
C29_Witness ==
    \E s \in Sensors :
        /\ power_window_30s[s] = <<>>
        /\ Len(power_window_15min[s]) >= 15
        /\ power_window_15min[s][1][2] > config.update_interval
        /\ native_value[s].written

====
